---- MODULE Spec2Model ----
(***************************************************************************)
(* usbip-rs: the client workflows attach / detach / list-imported over the *)
(* vhci_hcd driver interface (sysfs status table, attach and detach        *)
(* control files) and the connection registry (/var/run/vhci_hcd/portN).   *)
(*                                                                         *)
(* Every client invocation is its own OS process.  An invocation is cut    *)
(* into steps at the points where it touches state shared with other       *)
(* processes (the kernel port table, the registry files); the code         *)
(* between two such points is local and is executed inside one step.       *)
(* An invocation that crashes is an invocation that takes no further       *)
(* step, so every intermediate state below is also a crash state.          *)
(***************************************************************************)
EXTENDS Integers, Sequences, FiniteSets, TLC

\* ---------------------------------------------------------------- bounds
NumAttach == 2
NumDetach == 1
MaxControllers == 2
MaxWrites == 2
\* ports of one hub; every controller of the kernel has one high-speed and
\* one super-speed hub
HcPorts == 1
\* repeated calls of detach in the runs of one detach invocation
MaxCalls == 1

\* ------------------------------------------------------ program constants
SYSFS_BUS_ID_SIZE == 32
SYSFS_PATH_MAX == 256
DEFAULT_PORT == 3240

Attachers == 1 .. NumAttach
Detachers == (NumAttach + 1) .. (NumAttach + NumDetach)

\* ------------------------------------------------------------- byte text
\* A Rust &str / byte buffer is a sequence of bytes.  The bytes used are
\* ASCII, the three bytes of U+FFFD (EF BF BD) and the byte FF, which is
\* never valid UTF-8.
REPL == <<239, 191, 189>>

Zeros(n) == [k \in 1 .. n |-> 0]

Drop(s, n) == IF n >= Len(s) THEN <<>> ELSE SubSeq(s, n + 1, Len(s))

IsCont(b) == b >= 128 /\ b <= 191

\* String::from_utf8_lossy on the byte alphabet above: a maximal invalid
\* prefix of a sequence becomes one U+FFFD
RECURSIVE to_string_lossy(_)
to_string_lossy(b) ==
  IF b = <<>> THEN <<>>
  ELSE IF b[1] < 128 THEN <<b[1]>> \o to_string_lossy(Drop(b, 1))
  ELSE IF b[1] = 239 /\ Len(b) >= 2 /\ IsCont(b[2])
    THEN IF Len(b) >= 3 /\ IsCont(b[3])
           THEN SubSeq(b, 1, 3) \o to_string_lossy(Drop(b, 3))
           ELSE REPL \o to_string_lossy(Drop(b, 2))
  ELSE REPL \o to_string_lossy(Drop(b, 1))

\* CStr::to_str succeeds exactly on valid UTF-8
RECURSIVE IsUtf8(_)
IsUtf8(b) ==
  IF b = <<>> THEN TRUE
  ELSE IF b[1] < 128 THEN IsUtf8(Drop(b, 1))
  ELSE IF b[1] = 239 /\ Len(b) >= 3 /\ IsCont(b[2]) /\ IsCont(b[3])
    THEN IsUtf8(Drop(b, 3))
  ELSE FALSE

\* CharBuf<N>: TryFrom<&str>; the result of a refused conversion is <<>>
CharBufFits(value, N) == Len(value) < N

\* variant: a string that does not fit is cut to N - 1 bytes
CharBuf_new_mutant(value, N) ==
  IF Len(value) >= N THEN SubSeq(value, 1, N - 1) \o <<0>>
  ELSE value \o Zeros(N - Len(value))

CharBuf_new(value, N) ==
  IF Len(value) >= N THEN <<>> ELSE value \o Zeros(N - Len(value))

\* CharBuf::as_c_str: the bytes before the first NUL, if there is a NUL
HasNul(buf) == \E i \in 1 .. Len(buf) : buf[i] = 0
FirstNul(buf) == CHOOSE i \in 1 .. Len(buf) :
                   buf[i] = 0 /\ \A k \in 1 .. (i - 1) : buf[k] # 0
as_c_str(buf) == SubSeq(buf, 1, FirstNul(buf) - 1)

\* variant: the bytes after the first NUL are cleared
CharBuf_decode_mutant(bytes, N) ==
  [k \in 1 .. N |->
     IF \E i \in 1 .. (k - 1) : bytes[i] = 0 THEN 0 ELSE bytes[k]]

\* DecodeBE for CharBuf<N>: a zeroed buffer, then copy_from_slice(bytes)
CharBuf_decode(bytes, N) ==
  [k \in 1 .. N |-> IF k <= Len(bytes) THEN bytes[k] ELSE Zeros(N)[k]]

\* EncodeBE for CharBuf<N>: bytes.copy_from_slice(&self.buffer)
CharBuf_encode(buffer) == [k \in 1 .. Len(buffer) |-> buffer[k]]

\* ------------------------------------------------------------- UsbSpeed
\* repr(u32) of UsbSpeed: Unknown 0, Low 1, Full 2, High 3, Wireless 4,
\* Super 5; TryFromPrimitive refuses every other code
SPEED_SUPER == 5
UsbSpeedValid(code) == code \in 0 .. 5

\* --------------------------------------------------------- VhciDeviceStatus
VDEV_ST_NULL == 4
VDEV_ST_USED == 6

VhciDeviceStatus(code) ==
  CASE code = 4 -> "NotConnected"
    [] code = 5 -> "NotAssigned"
    [] code = 6 -> "Used"
    [] code = 7 -> "Error"
    [] OTHER -> "Invalid"

\* VhciDevice::default(): hub High, port 0, NotConnected
DefaultDevice ==
  [hub_speed |-> "High", port |-> 0, status |-> "NotConnected",
   remote_device_id |-> [hi |-> 0, lo |-> 0]]

\* ================================================================ state
VARIABLES
  numControllers, \* vhci_hcd.N platform devices the kernel module created
  kport,          \* the kernel's port table: status code, occupant, detaches
  registry,       \* /var/run/vhci_hcd/port<N>: the file of every port
  att,            \* the attach invocations
  det,            \* the detach invocations
  listOut,        \* what list-imported returned, when it was the last step
  last,           \* the attach invocation that returned in the last step
  hostile,        \* whether the peer, the device query and the file system may fail
  fn,             \* a function under test: its name, arguments and result
  usbcore,        \* the exporting host: the USB device, its driver, the match list
  srv             \* the bind_device or unbind_device invocation on that host

vars == <<numControllers, kport, registry, att, det, listOut, last, hostile, fn,
          usbcore, srv>>

\* what no client step changes
fixed == <<numControllers, hostile, fn, usbcore, srv>>

\* no exporting host: no usb device is looked at and nothing is bound
ServerOff ==
  /\ usbcore = [found |-> FALSE]
  /\ srv = [pc |-> "off"]

\* ------------------------------------------------- the kernel's interface
\* nports attribute: VHCI_PORTS * controllers, VHCI_PORTS = 2 * HcPorts
KernelPorts(nc) == nc * 2 * HcPorts
PortIds(nc) == 0 .. (KernelPorts(nc) - 1)

KernelHub(p) == IF (p % (2 * HcPorts)) < HcPorts THEN "hs" ELSE "ss"

\* one data line of a status attribute, as the grammar
\* "{str}  {u16} {u32} {u8} {u32:x} {u32} {str}" parses it; parsed = FALSE
\* is a line the grammar refuses, udev = FALSE a local_bus_id whose device
\* query fails
StatusLine(kp, p, udevOk) ==
  [parsed |-> TRUE, hub |-> KernelHub(p), port |-> p,
   status |-> kp[p].status, device_id |-> kp[p].devid, udev |-> udevOk]

\* the data lines of attribute "status" (c = 0) or "status.c"
StatusAttr(kp, c, udevOk) ==
  [k \in 1 .. (2 * HcPorts) |->
     StatusLine(kp, c * 2 * HcPorts + (k - 1), udevOk)]

StatusAttrs(kp, nc, udevOk) ==
  [c \in 1 .. nc |-> StatusAttr(kp, c - 1, udevOk)]

\* ------------------------------------------------------------- VhciHcd
\* the body of the loop over the lines of one attribute; st is
\* [err, table, total], j the position of the line in its attribute
ScanLine(st, j, line, num_ports) ==
  IF st.total >= num_ports THEN [st EXCEPT !.err = "ConflictingStatusData"]
  ELSE LET st1 == [st EXCEPT !.total = @ + 1] IN
    IF ~line.parsed
      THEN [st1 EXCEPT !.err = "VhciDeviceParsingUdevAttribute"]
    ELSE IF line.hub \notin {"hs", "ss"}
      THEN [st1 EXCEPT !.err = "VhciDeviceParsingUdevAttribute"]
    ELSE IF line.port >= num_ports
      THEN [st1 EXCEPT !.err = "ConflictingStatusData"]
    ELSE IF VhciDeviceStatus(line.status) = "Invalid"
      THEN [st1 EXCEPT !.err = "VhciDeviceParsingUdevAttribute"]
    ELSE IF VhciDeviceStatus(line.status) \in {"Used", "Error"} /\ ~line.udev
      THEN [st1 EXCEPT !.err = "QueryingLocalUsbDevice"]
    ELSE [st1 EXCEPT !.table[j + 1] =
            [hub_speed |-> IF line.hub = "hs" THEN "High" ELSE "Super",
             port |-> line.port,
             status |-> VhciDeviceStatus(line.status),
             remote_device_id |->
               IF VhciDeviceStatus(line.status) \in {"Used", "Error"}
                 THEN line.device_id ELSE [hi |-> 0, lo |-> 0]]]

\* the loop over the lines of one attribute, from line j on.  (The state
\* after a line is bound by a set constructor, here and below: a bound
\* value is computed once, where an operator argument would be computed
\* again at each of its uses.)
RECURSIVE ScanAttr(_, _, _, _)
ScanAttr(st, lines, j, num_ports) ==
  IF st.err # "Ok" \/ j >= Len(lines) THEN st
  ELSE CHOOSE r \in {ScanAttr(s, lines, j + 1, num_ports) :
                       s \in {ScanLine(st, j, lines[j + 1], num_ports)}} : TRUE

\* the loop over the controllers, from controller i on
RECURSIVE ScanControllers(_, _, _, _)
ScanControllers(st, attrs, i, num_ports) ==
  IF st.err # "Ok" \/ i >= Len(attrs) THEN st
  ELSE CHOOSE r \in {ScanControllers(s, attrs, i + 1, num_ports) :
                       s \in {ScanAttr(st, attrs[i + 1], 0, num_ports)}} : TRUE

\* variant: the scan ends without the size check
ScanEnd_mutant(st, num_ports) == st

\* what the scan makes of a table and a total: the final size check
ScanEnd(st, num_ports) ==
  IF st.err = "Ok" /\ st.total < num_ports
    THEN [st EXCEPT !.err = "ConflictingStatusData"]
    ELSE st

\* VhciHcd::refresh_improted_device_list on the cached table
refresh_improted_device_list(table, attrs, num_ports) ==
  CHOOSE r \in {ScanEnd(s, num_ports) :
                  s \in {ScanControllers(
                           [err |-> "Ok", table |-> table, total |-> 0],
                           attrs, 0, num_ports)}} : TRUE

\* VhciHcd::open: nports read, the table allocated with defaults, refreshed
VhciHcd_open(nports, attrs) ==
  IF nports = 0
    THEN [err |-> "VhciNoAvailablePorts", num_ports |-> 0, table |-> <<>>]
    ELSE CHOOSE o \in
           {[err |-> r.err, num_ports |-> nports,
             table |-> IF r.err = "Ok" THEN r.table ELSE <<>>] :
              r \in {refresh_improted_device_list(
                       [k \in 1 .. nports |-> DefaultDevice], attrs, nports)}} :
           TRUE

\* VhciHcd::get_free_port: the index of the first compatible free slot, or
\* num_ports when there is none (NoFreePorts)
HubOf(speed) == IF speed = SPEED_SUPER THEN "Super" ELSE "High"

RECURSIVE get_free_port_from(_, _, _, _)
get_free_port_from(table, num_ports, speed, i) ==
  IF i >= num_ports THEN num_ports
  ELSE IF table[i + 1].hub_speed # HubOf(speed)
    THEN get_free_port_from(table, num_ports, speed, i + 1)
  ELSE IF table[i + 1].status = "NotConnected" THEN i
  ELSE get_free_port_from(table, num_ports, speed, i + 1)

\* variant: every speed is served by the high-speed hub
get_free_port_mutant(table, num_ports, speed) ==
  get_free_port_from(table, num_ports, 0, 0)

get_free_port(table, num_ports, speed) ==
  get_free_port_from(table, num_ports, speed, 0)

\* variant: the slot that is returned is marked as taken
get_free_port_table_mutant(table, num_ports, speed) ==
  [k \in 1 .. Len(table) |->
     IF k = get_free_port(table, num_ports, speed) + 1
       THEN [table[k] EXCEPT !.status = "NotAssigned"] ELSE table[k]]

\* virtual_devices after get_free_port(&mut self, speed): the body reads
\* the slots and assigns to none of them
get_free_port_table(table, num_ports, speed) == table

\* ------------------------------------------------------------ Transport
USBIP_VERSION == 273
OP_IMPORT == 3

\* variant: an unknown opcode is taken for Unspecified
OperationKind_from_code_mutant(code) ==
  IF (code % 32768) \in {0, 2, 3, 4, 5, 6, 7} THEN code % 32768 ELSE 0

\* OperationKind::from_code: the opcodes 0, 2, 3, 4, 5, 6, 7 are known
OperationKind_from_code(code) ==
  IF (code % 32768) \in {0, 2, 3, 4, 5, 6, 7} THEN code % 32768 ELSE 65535

\* variant: the opcode of the reply is not compared with the request's
recv_reply_header_any_kind(h, kind) ==
  IF h.version # USBIP_VERSION THEN "VersionMismatch"
  ELSE IF h.code \div 32768 # 0 THEN "DirectionMismatch"
  ELSE CASE h.status = 0 -> "Ok"
         [] h.status = 1 -> "RequestFailed"
         [] h.status = 2 -> "DeviceBusy"
         [] h.status = 3 -> "DeviceError"
         [] h.status = 4 -> "NoSuchDevice"
         [] OTHER -> "Other"

\* variant: a status that is no OperationStatus counts as Ok
recv_reply_header_any_status(h, kind) ==
  IF h.version # USBIP_VERSION THEN "VersionMismatch"
  ELSE IF h.code \div 32768 # 0 THEN "DirectionMismatch"
  ELSE IF OperationKind_from_code(h.code) # 0
          /\ OperationKind_from_code(h.code) # kind THEN "InvalidData"
  ELSE CASE h.status = 1 -> "RequestFailed"
         [] h.status = 2 -> "DeviceBusy"
         [] h.status = 3 -> "DeviceError"
         [] h.status = 4 -> "NoSuchDevice"
         [] h.status = 5 -> "Other"
         [] OTHER -> "Ok"

\* UsbIpSocket::recv_reply_header on a received header
recv_reply_header(h, kind) ==
  IF h.version # USBIP_VERSION THEN "VersionMismatch"
  ELSE IF h.code \div 32768 # 0 THEN "DirectionMismatch"
  ELSE IF OperationKind_from_code(h.code) # 0
          /\ OperationKind_from_code(h.code) # kind THEN "InvalidData"
  ELSE CASE h.status = 0 -> "Ok"
         [] h.status = 1 -> "RequestFailed"
         [] h.status = 2 -> "DeviceBusy"
         [] h.status = 3 -> "DeviceError"
         [] h.status = 4 -> "NoSuchDevice"
         [] OTHER -> "Other"

\* big-endian fields of the wire
U16BE(b) == b[1] * 256 + b[2]
U32BE(b) == ((b[1] * 256 + b[2]) * 256 + b[3]) * 256 + b[4]

\* OperationHeader: PACKED_LEN and DecodeBE (version u16, code u16,
\* status u32)
HEADER_LEN == 8
OperationHeader_decode(b) ==
  [version |-> U16BE(SubSeq(b, 1, 2)), code |-> U16BE(SubSeq(b, 3, 4)),
   status |-> U32BE(SubSeq(b, 5, 8))]

\* variant: what has arrived is returned, the missing bytes being zero
recv_mutant(stream, L) ==
  [err |-> "Ok",
   data |-> [k \in 1 .. L |-> IF k <= Len(stream) THEN stream[k] ELSE 0],
   rest |-> Drop(stream, L)]

\* UsbIpSocket::recv: read_exact of L bytes from a stream that ends after
\* the bytes of stream
recv(stream, L) ==
  IF Len(stream) >= L
    THEN [err |-> "Ok", data |-> SubSeq(stream, 1, L), rest |-> Drop(stream, L)]
    ELSE [err |-> "Io", data |-> <<>>, rest |-> <<>>]

\* UsbIpSocket::recv_encoded::<OperationHeader>
recv_encoded_header(stream) ==
  LET r == recv(stream, HEADER_LEN) IN
  IF r.err # "Ok"
    THEN [err |-> r.err, has |-> FALSE, value |-> <<>>, rest |-> r.rest]
    ELSE [err |-> "Ok", has |-> TRUE, value |-> OperationHeader_decode(r.data),
          rest |-> r.rest]

\* ----------------------------------------------------- ConnectionRegistry
RECURSIVE Digits(_)
Digits(n) == IF n < 10 THEN <<48 + n>> ELSE Digits(n \div 10) \o <<48 + (n % 10)>>

IsDigits(b) == b # <<>> /\ \A i \in 1 .. Len(b) : b[i] \in 48 .. 57

RECURSIVE DigitsValue(_)
DigitsValue(b) ==
  IF b = <<>> THEN 0 ELSE DigitsValue(SubSeq(b, 1, Len(b) - 1)) * 10 + (b[Len(b)] - 48)

\* variant: the port is written with its last digit only
format_record_mutant(host, port, bus_id) ==
  host \o <<32>> \o Digits(port % 10) \o <<32>> \o bus_id \o <<10>>

\* format!("{} {} {}\n", host, port, bus_id)
format_record(host, port, bus_id) ==
  host \o <<32>> \o Digits(port) \o <<32>> \o bus_id \o <<10>>

IsSpace(c) == c \in {9, 10, 11, 12, 13, 32}

RECURSIVE TrimStart(_)
TrimStart(b) == IF b # <<>> /\ IsSpace(b[1]) THEN TrimStart(Drop(b, 1)) ELSE b

RECURSIVE TrimEnd(_)
TrimEnd(b) ==
  IF b # <<>> /\ IsSpace(b[Len(b)]) THEN TrimEnd(SubSeq(b, 1, Len(b) - 1)) ELSE b

trim(b) == TrimEnd(TrimStart(b))

\* sscanf!(text, "{str} {u16} {str}"): the places <<i, j>> of the two
\* separating blanks of a match; {str} takes one or more characters other
\* than a line feed, {u16} up to five digits of a value below 65536
ScanSplits(t) ==
  {ij \in (1 .. Len(t)) \X (1 .. Len(t)) :
     /\ ij[1] > 1 /\ ij[1] < ij[2] /\ ij[2] < Len(t)
     /\ t[ij[1]] = 32 /\ t[ij[2]] = 32
     /\ \A k \in 1 .. Len(t) : t[k] # 10
     /\ LET num == SubSeq(t, ij[1] + 1, ij[2] - 1)
        IN IsDigits(num) /\ Len(num) <= 5 /\ DigitsValue(num) < 65536}

\* the match the lazy first {str} selects: the leftmost first blank
ScanSplit(t) ==
  CHOOSE ij \in ScanSplits(t) :
    \A o \in ScanSplits(t) :
      ij[1] < o[1] \/ (ij[1] = o[1] /\ ij[2] <= o[2])

NoFile == [present |-> FALSE, content |-> <<>>, writer |-> 0]

\* read_connection_record on the file of a port
read_connection_record(file) ==
  IF ~file.present
    THEN [err |-> "IoRead", host |-> <<>>, port |-> 0, bus_id |-> <<>>]
  ELSE LET t == trim(file.content) IN
    IF ScanSplits(t) = {}
      THEN [err |-> "Parsing", host |-> <<>>, port |-> 0, bus_id |-> <<>>]
      ELSE LET ij == ScanSplit(t) IN
        [err |-> "Ok",
         host |-> SubSeq(t, 1, ij[1] - 1),
         port |-> DigitsValue(SubSeq(t, ij[1] + 1, ij[2] - 1)),
         bus_id |-> SubSeq(t, ij[2] + 1, Len(t))]

\* save_connection_record: the file port<rh_port> is created or truncated
\* and written; writer names the invocation that wrote it (history)
save_connection_record(reg, rh_port, host, port, bus_id, writer) ==
  [reg EXCEPT ![rh_port] =
     [present |-> TRUE, content |-> format_record(host, port, bus_id),
      writer |-> writer]]

\* delete_connection_record: remove_file, a missing file is tolerated
delete_connection_record(reg, port) == [reg EXCEPT ![port] = NoFile]

\* --------------------------------------- the state directory on the disk
\* fs is the state path: absent, a directory of the mode dir_mode with
\* the files port<N>, or something that is not a directory.  io is the
\* answer of the system to the first call of a function when the state of
\* the path does not decide it.
STATE_MODE == 448                                     \* 0o700

RECURSIVE BitAnd(_, _)
BitAnd(x, y) ==
  IF x = 0 \/ y = 0 THEN 0
  ELSE (IF x % 2 = 1 /\ y % 2 = 1 THEN 1 ELSE 0) + 2 * BitAnd(x \div 2, y \div 2)

\* the bits of mode that the umask does not clear
Masked(mode, umask) == mode - BitAnd(mode, umask)

NoPortFile == [present |-> FALSE, content |-> <<>>, mode |-> 0]

\* fs::create_dir, the is_dir check and set_permissions(0o700)
create_state_dir(fs, io) ==
  IF io # "Ok" THEN [err |-> "IoWrite", fs |-> fs]
  ELSE IF fs.dir = "other" THEN [err |-> "NotADirectory", fs |-> fs]
  ELSE [err |-> "Ok", fs |-> [fs EXCEPT !.dir = "dir", !.dir_mode = STATE_MODE]]

\* OpenOptions write, create, truncate, mode(0o700): an existing file is
\* emptied and keeps its mode, a new one gets the mode under the umask
open_port_file(fs, rh_port, umask) ==
  [fs EXCEPT !.files[rh_port] =
     [present |-> TRUE, content |-> <<>>,
      mode |-> IF @.present THEN @.mode ELSE Masked(STATE_MODE, umask)]]

\* file.write_all(format!(...))
write_port_file(fs, rh_port, host, port, bus_id) ==
  [fs EXCEPT !.files[rh_port].content = format_record(host, port, bus_id)]

\* save_connection_record on the disk
save_state(fs, rh_port, host, port, bus_id, umask, io) ==
  LET d == create_state_dir(fs, io) IN
  IF d.err # "Ok" THEN d
  ELSE [err |-> "Ok",
        fs |-> write_port_file(open_port_file(d.fs, rh_port, umask),
                               rh_port, host, port, bus_id)]

NoRecord(err, kind) ==
  [err |-> err, kind |-> kind, host |-> <<>>, port |-> 0, bus_id |-> <<>>]

\* read_connection_record on the disk: open, read_to_string, sscanf
read_state(fs, rh_port, io) ==
  IF io # "Ok" THEN NoRecord("IoRead", io)
  ELSE IF fs.dir = "other" THEN NoRecord("IoRead", "NotADirectory")
  ELSE IF fs.dir = "absent" \/ ~fs.files[rh_port].present
    THEN NoRecord("IoRead", "NotFound")
  ELSE IF ~IsUtf8(fs.files[rh_port].content) THEN NoRecord("IoRead", "InvalidData")
  ELSE LET r == read_connection_record(fs.files[rh_port]) IN
    [err |-> r.err, kind |-> "", host |-> r.host, port |-> r.port,
     bus_id |-> r.bus_id]

\* variant: the directory is removed with what it holds
remove_state_dir_mutant(fs) ==
  IF fs.dir = "absent" THEN [err |-> "Ok", fs |-> fs]
  ELSE IF fs.dir = "other" THEN [err |-> "IoRemove", fs |-> fs]
  ELSE [err |-> "Ok",
        fs |-> [fs EXCEPT !.dir = "absent", !.dir_mode = 0,
                          !.files = [p \in DOMAIN fs.files |-> NoPortFile]]]

\* fs::remove_dir: not-found and not-empty are tolerated
remove_state_dir(fs) ==
  IF fs.dir = "absent" THEN [err |-> "Ok", fs |-> fs]
  ELSE IF fs.dir = "other" THEN [err |-> "IoRemove", fs |-> fs]
  ELSE IF \E p \in DOMAIN fs.files : fs.files[p].present
    THEN [err |-> "Ok", fs |-> fs]
  ELSE [err |-> "Ok", fs |-> [fs EXCEPT !.dir = "absent", !.dir_mode = 0]]

\* delete_connection_record on the disk: remove_file, a missing file is
\* tolerated, then remove_dir when it is asked for
delete_state(fs, port, remove_dir, io) ==
  IF io # "Ok" \/ fs.dir = "other" THEN [err |-> "IoRemove", fs |-> fs]
  ELSE LET f == IF fs.dir = "dir"
                  THEN [fs EXCEPT !.files[port] = NoPortFile] ELSE fs
       IN IF remove_dir THEN remove_state_dir(f) ELSE [err |-> "Ok", fs |-> f]

\* ================================================================ inputs
Host1 == <<49, 48, 46, 48, 46, 48, 46, 53>>        \* "10.0.0.5"
Host2 == <<49, 48, 46, 48, 46, 48, 46, 55>>        \* "10.0.0.7"
Bus11 == <<49, 45, 49>>                            \* "1-1"
Bus113 == <<49, 45, 49, 46, 51>>                   \* "1-1.3"
BusLong == [k \in 1 .. SYSFS_BUS_ID_SIZE |-> 49]   \* 32 bytes

\* what attach is called with, and the speed code of the device that the
\* server exports under this bus id
Targets ==
  {[host |-> Host1, bus_id |-> Bus11, speed |-> 3],
   [host |-> Host2, bus_id |-> Bus113, speed |-> 5]}
TargetsHostile ==
  Targets \cup {[host |-> Host1, bus_id |-> REPL, speed |-> 2],
                [host |-> Host2, bus_id |-> BusLong, speed |-> 3]}

\* the bus_id field of the device descriptor a server may answer with
ReplyBusIds ==
  {CharBuf_new(Bus11, SYSFS_BUS_ID_SIZE), CharBuf_new(Bus113, SYSFS_BUS_ID_SIZE),
   CharBuf_new(<<255>>, SYSFS_BUS_ID_SIZE), BusLong}

\* a speed code no UsbSpeed has
BadSpeed == SPEED_SUPER + 1

\* bus_num and dev_num of the descriptor
ReplyDevice ==
  [bus_num |-> [hi |-> 0, lo |-> 1], dev_num |-> [hi |-> 0, lo |-> 2]]

\* the reply headers a server may answer with
ReplyHeaders ==
  {[version |-> USBIP_VERSION, code |-> OP_IMPORT, status |-> 0],
   [version |-> USBIP_VERSION, code |-> OP_IMPORT, status |-> 4]}

\* the outcome of the network: fine, no connection, closed before the reply
NetOutcomes == {"Ok", "ConnectFailed", "Closed"}

\* whether the device query of a connected port, or a file system call,
\* succeeds
IoOutcomes == IF hostile THEN BOOLEAN ELSE {TRUE}

\* the outcome of opening and writing a sysfs control file, the port's
\* occupancy aside
SysfsOutcomes == {"Ok", "PermissionDenied", "Io"}

\* ======================================================== attach_device
AttIdle ==
  [pc |-> "idle", host |-> <<>>, bus_id |-> <<>>, connects |-> 0,
   hdr_sent |-> FALSE, imports |-> 0, replied |-> FALSE, differs |-> FALSE,
   speed |-> 0, num_ports |-> 0, table |-> <<>>, writes |-> 0,
   lastWrite |-> "", afterOther |-> FALSE, turn |-> 0, rh_port |-> 0,
   genAt |-> 0, busyPort |-> -1,
   saved |-> FALSE, result |-> ""]

\* the return of attach_device; the VhciHcd of import_device is dropped
AttDone(r, res) ==
  [r EXCEPT !.pc = "done", !.result = res, !.num_ports = 0, !.table = <<>>,
            !.turn = 0]

\* the bus id comparison of query_and_import
bus_id_mismatch(reply_bus_id, bus_id) ==
  ~HasNul(reply_bus_id) \/ to_string_lossy(as_c_str(reply_bus_id)) # bus_id

\* TryFrom<RawUsbDeviceInfo> for UsbDeviceInfo, the path field being valid
validate_device(reply_bus_id, speed) ==
  HasNul(reply_bus_id) /\ IsUtf8(as_c_str(reply_bus_id)) /\ UsbSpeedValid(speed)

\* variant: the path field is not looked at
UsbDeviceInfo_try_from_mutant(value) ==
  IF validate_device(value.bus_id, value.speed)
    THEN [ok |-> TRUE,
          info |-> [value EXCEPT !.path = <<>>, !.bus_id = as_c_str(value.bus_id)]]
    ELSE [ok |-> FALSE, info |-> <<>>]

\* TryFrom<RawUsbDeviceInfo> for UsbDeviceInfo: the two text fields up to
\* their NUL, as UTF-8, the speed as UsbSpeed, every other field copied
UsbDeviceInfo_try_from(value) ==
  IF ~HasNul(value.path) \/ ~IsUtf8(as_c_str(value.path))
    THEN [ok |-> FALSE, info |-> <<>>]
  ELSE IF ~HasNul(value.bus_id) \/ ~IsUtf8(as_c_str(value.bus_id))
    THEN [ok |-> FALSE, info |-> <<>>]
  ELSE IF ~UsbSpeedValid(value.speed) THEN [ok |-> FALSE, info |-> <<>>]
  ELSE [ok |-> TRUE,
        info |-> [value EXCEPT !.path = as_c_str(value.path),
                               !.bus_id = as_c_str(value.bus_id)]]

\* UsbInterfaceInfo, DecodeBE: the four fields in the order of declaration
UsbInterfaceInfo_decode(b) ==
  [b_interface_class |-> b[1], b_interface_sub_class |-> b[2],
   b_interface_protocol |-> b[3], padding |-> b[4]]

\* UsbInterfaceInfo, EncodeBE
UsbInterfaceInfo_encode(v) ==
  <<v.b_interface_class, v.b_interface_sub_class, v.b_interface_protocol,
    v.padding>>

\* ------------------------------------------------ list_exported_devices
\* PACKED_LEN of RawUsbDeviceInfo, of UsbInterfaceInfo, of ListDevicesReply
DEVICE_LEN == SYSFS_PATH_MAX + SYSFS_BUS_ID_SIZE + 24
INTERFACE_LEN == 4
COUNT_LEN == 4
OP_DEVLIST == 5

\* big-endian bytes of a u16, and of a u32 given as an integer below 2^31
BE16(n) == <<n \div 256, n % 256>>
BE32(n) == BE16(n \div 65536) \o BE16(n % 65536)

U32Halves(b) == [hi |-> U16BE(SubSeq(b, 1, 2)), lo |-> U16BE(SubSeq(b, 3, 4))]

\* RawUsbDeviceInfo, DecodeBE: the fields in the order of declaration
RawUsbDeviceInfo_decode(b) ==
  LET o == SYSFS_PATH_MAX + SYSFS_BUS_ID_SIZE IN
  [path |-> SubSeq(b, 1, SYSFS_PATH_MAX),
   bus_id |-> SubSeq(b, SYSFS_PATH_MAX + 1, o),
   bus_num |-> U32Halves(SubSeq(b, o + 1, o + 4)),
   dev_num |-> U32Halves(SubSeq(b, o + 5, o + 8)),
   speed |-> U32BE(SubSeq(b, o + 9, o + 12)),
   id_vendor |-> U16BE(SubSeq(b, o + 13, o + 14)),
   id_product |-> U16BE(SubSeq(b, o + 15, o + 16)),
   bcd_device |-> U16BE(SubSeq(b, o + 17, o + 18)),
   b_device_class |-> b[o + 19],
   b_device_sub_class |-> b[o + 20],
   b_device_protocol |-> b[o + 21],
   b_configuration_value |-> b[o + 22],
   b_num_configurations |-> b[o + 23],
   b_num_interfaces |-> b[o + 24]]

\* RawUsbDeviceInfo, EncodeBE, as the exporting side sends it
RawUsbDeviceInfo_encode(v) ==
  v.path \o v.bus_id
    \o BE16(v.bus_num.hi) \o BE16(v.bus_num.lo)
    \o BE16(v.dev_num.hi) \o BE16(v.dev_num.lo)
    \o BE32(v.speed)
    \o BE16(v.id_vendor) \o BE16(v.id_product) \o BE16(v.bcd_device)
    \o <<v.b_device_class, v.b_device_sub_class, v.b_device_protocol,
         v.b_configuration_value, v.b_num_configurations, v.b_num_interfaces>>

\* the inner loop of list_exported_devices: k interface records
RECURSIVE recv_interfaces(_, _)
recv_interfaces(stream, k) ==
  IF k = 0 THEN [err |-> "Ok", interfaces |-> <<>>, rest |-> stream]
  ELSE LET r == recv(stream, INTERFACE_LEN) IN
    IF r.err # "Ok" THEN [err |-> "NetworkIo", interfaces |-> <<>>, rest |-> <<>>]
    ELSE LET i == UsbInterfaceInfo_decode(r.data)
             t == recv_interfaces(r.rest, k - 1)
         IN IF t.err # "Ok" THEN t
            ELSE [err |-> "Ok",
                  interfaces |->
                    <<[b_interface_class |-> i.b_interface_class,
                       b_interface_sub_class |-> i.b_interface_sub_class,
                       b_interface_protocol |-> i.b_interface_protocol]>>
                      \o t.interfaces,
                  rest |-> t.rest]

\* variant: the interface records of a device are left on the stream
recv_devices_mutant(stream, n) ==
  IF n = 0 THEN [err |-> "Ok", devices |-> <<>>, rest |-> stream]
  ELSE LET r == recv(stream, DEVICE_LEN) IN
    IF r.err # "Ok" THEN [err |-> "NetworkIo", devices |-> <<>>, rest |-> <<>>]
    ELSE LET d == UsbDeviceInfo_try_from(RawUsbDeviceInfo_decode(r.data)) IN
      IF ~d.ok THEN [err |-> "ProtocolUsbDevice", devices |-> <<>>, rest |-> <<>>]
      ELSE [err |-> "Ok",
            devices |-> <<[remote_device_info |-> d.info, interfaces |-> <<>>]>>,
            rest |-> r.rest]

\* the outer loop of list_exported_devices: n devices, each a descriptor
\* and the interface records it declares; an error returns without the
\* devices read so far
RECURSIVE recv_devices(_, _)
recv_devices(stream, n) ==
  IF n = 0 THEN [err |-> "Ok", devices |-> <<>>, rest |-> stream]
  ELSE LET r == recv(stream, DEVICE_LEN) IN
    IF r.err # "Ok" THEN [err |-> "NetworkIo", devices |-> <<>>, rest |-> <<>>]
    ELSE LET d == UsbDeviceInfo_try_from(RawUsbDeviceInfo_decode(r.data)) IN
      IF ~d.ok THEN [err |-> "ProtocolUsbDevice", devices |-> <<>>, rest |-> <<>>]
      ELSE LET f == recv_interfaces(r.rest, d.info.b_num_interfaces) IN
        IF f.err # "Ok" THEN [err |-> f.err, devices |-> <<>>, rest |-> <<>>]
        ELSE LET t == recv_devices(f.rest, n - 1) IN
          IF t.err # "Ok" THEN t
          ELSE [err |-> "Ok",
                devices |-> <<[remote_device_info |-> d.info,
                               interfaces |-> f.interfaces]>> \o t.devices,
                rest |-> t.rest]

\* list_exported_devices on what the peer sends after the connection is
\* made: the reply header, the count, the devices
list_exported_devices(stream) ==
  LET h == recv_encoded_header(stream) IN
  IF h.err # "Ok" THEN [err |-> "NetworkIo", devices |-> <<>>, rest |-> <<>>]
  ELSE IF recv_reply_header(h.value, OP_DEVLIST) # "Ok"
    THEN [err |-> recv_reply_header(h.value, OP_DEVLIST), devices |-> <<>>,
          rest |-> h.rest]
  ELSE LET c == recv(h.rest, COUNT_LEN) IN
    IF c.err # "Ok" THEN [err |-> "NetworkIo", devices |-> <<>>, rest |-> <<>>]
    ELSE recv_devices(c.rest, U32BE(c.data))

\* attach_device up to the call of import_device: connect, send the Import
\* request, receive and check the reply.  The returned record is the
\* invocation after these steps.
query_and_import(r0, t, net, hdr, reply_bus_id, speed) ==
  LET r1 == [r0 EXCEPT !.host = t.host, !.bus_id = t.bus_id, !.connects = @ + 1]
      r2 == [r1 EXCEPT !.hdr_sent = TRUE]
      r3 == [r2 EXCEPT !.imports = @ + 1]
      r4 == [r3 EXCEPT !.replied = TRUE,
                       !.differs = ~HasNul(reply_bus_id)
                                   \/ as_c_str(reply_bus_id) # t.bus_id]
  IN
  IF net = "ConnectFailed" THEN AttDone(r1, "NetworkIo")
  ELSE IF ~CharBufFits(t.bus_id, SYSFS_BUS_ID_SIZE) THEN AttDone(r2, "BusIdTooLong")
  ELSE IF net = "Closed" THEN AttDone(r3, "NetworkIo")
  ELSE IF recv_reply_header(hdr, OP_IMPORT) # "Ok"
    THEN AttDone(r3, recv_reply_header(hdr, OP_IMPORT))
  ELSE IF bus_id_mismatch(reply_bus_id, t.bus_id) THEN AttDone(r4, "BusIdMismatch")
  ELSE IF ~validate_device(reply_bus_id, speed) THEN AttDone(r4, "Protocol")
  ELSE [r4 EXCEPT !.pc = "open", !.speed = speed]

\* every step other than list-imported and a returning attach
NoList == [run |-> FALSE, ok |-> FALSE, entries |-> <<>>, after |-> 0]

Quiet == listOut' = NoList /\ last' = 0

AttachQuery(a) ==
  /\ att[a].pc = "idle"
  /\ \/ \E t \in Targets, rb \in ReplyBusIds :
          /\ rb \in {CharBuf_new(b, SYSFS_BUS_ID_SIZE) : b \in {Bus11, Bus113}}
          /\ att' = [att EXCEPT ![a] =
                query_and_import(att[a], t, "Ok",
                  [version |-> USBIP_VERSION, code |-> OP_IMPORT, status |-> 0],
                  rb, t.speed)]
     \/ /\ hostile
        /\ \E t \in TargetsHostile, net \in NetOutcomes, hdr \in ReplyHeaders,
              rb \in ReplyBusIds :
             \E sp \in {t.speed, BadSpeed} :
               att' = [att EXCEPT ![a] =
                         query_and_import(att[a], t, net, hdr, rb, sp)]
  /\ Quiet
  /\ UNCHANGED <<fixed, kport, registry, det>>

\* import_device: VhciHcd::open
ImportOpen(a) ==
  /\ att[a].pc = "open"
  /\ \E udevOk \in IoOutcomes :
       \E o \in {VhciHcd_open(KernelPorts(numControllers),
                              StatusAttrs(kport, numControllers, udevOk))} :
         att' = [att EXCEPT ![a] =
                   IF o.err # "Ok" THEN AttDone(@, o.err)
                   ELSE [@ EXCEPT !.pc = "loop", !.num_ports = o.num_ports,
                                  !.table = o.table]]
  /\ Quiet
  /\ UNCHANGED <<fixed, kport, registry, det>>

\* VhciHcd::attach_device: device_id = (bus_num << 16) | dev_num in u32,
\* a u32 being the record of its two 16-bit halves
RECURSIVE BitOr(_, _)
BitOr(x, y) ==
  IF x = 0 THEN y
  ELSE IF y = 0 THEN x
  ELSE (IF x % 2 = 1 \/ y % 2 = 1 THEN 1 ELSE 0) + 2 * BitOr(x \div 2, y \div 2)

vhci_device_id(bus_num, dev_num) ==
  [hi |-> BitOr(bus_num.lo, dev_num.hi), lo |-> dev_num.lo]

\* ImportedDevice::remote_bus_num: (remote_device_id >> 16) as u16
remote_bus_num(id) == id.hi % 65536

\* ImportedDevice::remote_dev_num: (remote_device_id & 0xFFFF) as u16
remote_dev_num(id) == BitAnd(id.lo, 65535) % 65536

\* the kernel's answer to a write of "<port> <fd> <devid> <speed>" to
\* attach: the port is taken if it is free, resource-busy otherwise
KernelAttach(kp, port, devid, who) ==
  IF kp[port].status = VDEV_ST_NULL
    THEN [res |-> "Ok",
          kp |-> [kp EXCEPT ![port].status = VDEV_ST_USED, ![port].owner = who,
                            ![port].devid = devid]]
    ELSE [res |-> "Busy", kp |-> kp]

\* variant: a resource-busy write is taken for a success
import_match_busy_ok(r, rh_port, res, gen) ==
  CASE res \in {"Ok", "Busy"} ->
         [r EXCEPT !.pc = "save", !.rh_port = rh_port, !.genAt = gen,
                   !.num_ports = 0, !.table = <<>>, !.turn = 0]
    [] res = "PermissionDenied" -> AttDone(r, "SysfsPermissionDenied")
    [] OTHER -> AttDone(r, "SysfsIo")

\* variant: every failed write is retried
import_match_retry_all(r, rh_port, res, gen) ==
  CASE res = "Ok" -> [r EXCEPT !.pc = "save", !.rh_port = rh_port, !.genAt = gen,
                            !.num_ports = 0, !.table = <<>>, !.turn = 0]
    [] OTHER -> r

\* variant: the port is returned whatever the write gave
import_match_any(r, rh_port, res, gen) ==
  [r EXCEPT !.pc = "save", !.rh_port = rh_port, !.genAt = gen,
            !.num_ports = 0, !.table = <<>>, !.turn = 0]

\* the match of import_device on the result of VhciHcd::attach_device
import_match(r, rh_port, res, gen) ==
  CASE res = "Ok" -> [r EXCEPT !.pc = "save", !.rh_port = rh_port, !.genAt = gen,
                            !.num_ports = 0, !.table = <<>>, !.turn = 0]
    [] res = "Busy" -> r
    [] res = "PermissionDenied" -> AttDone(r, "SysfsPermissionDenied")
    [] OTHER -> AttDone(r, "SysfsIo")

Bump(n) == IF n < MaxWrites THEN n + 1 ELSE n

\* one turn of the loop of import_device: get_free_port, then
\* VhciHcd::attach_device on the port it returned
ImportTry(a) ==
  /\ att[a].pc = "loop"
  /\ LET r == att[a]
         p == get_free_port(r.table, r.num_ports, r.speed)
     IN IF p >= r.num_ports
          THEN /\ att' = [att EXCEPT ![a] = AttDone(r, "NoFreePorts")]
               /\ UNCHANGED kport
          ELSE \E sys \in SysfsOutcomes :
                 LET k == IF sys = "Ok" THEN KernelAttach(kport, p, vhci_device_id(ReplyDevice.bus_num, ReplyDevice.dev_num), a)
                          ELSE [res |-> sys, kp |-> kport]
                     r1 == [r EXCEPT !.writes = Bump(@), !.lastWrite = k.res,
                                     !.busyPort = IF k.res = "Busy" THEN p ELSE -1,
                                     !.turn = 1 - @,
                                     !.afterOther =
                                       @ \/ (r.writes > 0 /\ r.lastWrite # "Busy")]
                 IN /\ att' = [att EXCEPT ![a] =
                                 import_match(r1, p, k.res, kport[p].gen)]
                    /\ kport' = k.kp
  /\ Quiet
  /\ UNCHANGED <<fixed, registry, det>>

\* attach_device after query_and_import returned the port
AttachSave(a) ==
  /\ att[a].pc = "save"
  /\ \E fsOk \in IoOutcomes :
       IF fsOk
         THEN /\ registry' = save_connection_record(registry, att[a].rh_port,
                               att[a].host, DEFAULT_PORT, att[a].bus_id, a)
              /\ att' = [att EXCEPT ![a] = AttDone([@ EXCEPT !.saved = TRUE], "Ok")]
              /\ last' = a
         ELSE /\ att' = [att EXCEPT ![a] = AttDone(@, "FsState")]
              /\ last' = 0
              /\ UNCHANGED registry
  /\ listOut' = NoList
  /\ UNCHANGED <<fixed, kport, det>>

\* ======================================================== detach_device
\* opened, total and cached record what VhciHcd::open gave the invocation:
\* whether it succeeded, the port count, and the statuses of the cached
\* slots that carry the port; removed is the file that the deletion found
\* calls counts the calls that returned before this one, prev is the port
\* and the result of the last of them
DetIdle ==
  [pc |-> "idle", port |-> 0, opened |-> FALSE, total |-> 0, cached |-> {},
   deleted |-> FALSE, removed |-> NoFile, wrote |-> FALSE, result |-> "",
   calls |-> 0, prev |-> [port |-> 0, result |-> ""]]

DetDone(r, res) == [r EXCEPT !.pc = "done", !.result = res]

\* variant: the port count is taken one too large
total_port_count_mutant(num_ports) == (num_ports + 1) % 65536

\* VhciHcd::total_port_count: num_ports as u16
total_port_count(num_ports) == num_ports % 65536

\* variant: the slot is found by its index, not by its port number
already_detached_mutant(table, port) ==
  port + 1 <= Len(table) /\ table[port + 1].status = "NotAssigned"

\* the loop of detach_device over cached_imported_devices
already_detached(table, port) ==
  \E k \in 1 .. Len(table) :
    table[k].port = port /\ table[k].status = "NotConnected"

\* variant: the record is not deleted before the detach write
detach_check_mutant(r0, port, o) ==
  LET r == [r0 EXCEPT !.port = port] IN
  IF o.err # "Ok" THEN DetDone(r, o.err)
  ELSE IF port >= total_port_count(o.num_ports) THEN DetDone(r, "InvalidPortNumber")
  ELSE IF already_detached(o.table, port) THEN DetDone(r, "Ok")
  ELSE [r EXCEPT !.pc = "write"]

\* detach_device up to the deletion of the record: open, the port check,
\* the scan of the cached table
detach_check(r0, port, o) ==
  LET r == [r0 EXCEPT !.port = port] IN
  IF o.err # "Ok" THEN DetDone(r, o.err)
  ELSE IF port >= total_port_count(o.num_ports) THEN DetDone(r, "InvalidPortNumber")
  ELSE IF already_detached(o.table, port) THEN DetDone(r, "Ok")
  ELSE [r EXCEPT !.pc = "delete"]

DetachOpen(d) ==
  /\ det[d].pc = "idle"
  /\ \E port \in 0 .. KernelPorts(numControllers), udevOk \in BOOLEAN :
       \E o \in {VhciHcd_open(KernelPorts(numControllers),
                              StatusAttrs(kport, numControllers, udevOk))} :
         det' = [det EXCEPT ![d] =
                   [detach_check(det[d], port, o) EXCEPT
                      !.opened = o.err = "Ok",
                      !.total = o.num_ports,
                      !.cached = {o.table[k].status :
                                    k \in {i \in 1 .. Len(o.table) :
                                             o.table[i].port = port}}]]
  /\ Quiet
  /\ UNCHANGED <<fixed, kport, registry, att>>

\* delete_connection_record(port)
DetachDelete(d) ==
  /\ det[d].pc = "delete"
  /\ \E fsOk \in IoOutcomes :
       IF fsOk
         THEN /\ registry' = delete_connection_record(registry, det[d].port)
              /\ det' = [det EXCEPT ![d].pc = "write", ![d].deleted = TRUE,
                                    ![d].removed = registry[det[d].port]]
         ELSE /\ det' = [det EXCEPT ![d] = DetDone(@, "IoRemove")]
              /\ UNCHANGED registry
  /\ Quiet
  /\ UNCHANGED <<fixed, kport, att>>

\* the kernel's answer to a write of "<port>" to detach: a port that is
\* not connected is refused
KernelDetach(kp, port) ==
  IF kp[port].status = VDEV_ST_NULL
    THEN [res |-> "Io", kp |-> kp]
    ELSE [res |-> "Ok",
          kp |-> [kp EXCEPT ![port].status = VDEV_ST_NULL, ![port].owner = 0,
                            ![port].devid = [hi |-> 0, lo |-> 0],
                            ![port].gen = @ + 1]]

\* VhciHcd::detach_device and the return of detach_device
DetachWrite(d) ==
  /\ det[d].pc = "write"
  /\ \E sys \in SysfsOutcomes :
       LET k == IF sys = "Ok" THEN KernelDetach(kport, det[d].port)
                ELSE [res |-> sys, kp |-> kport]
       IN /\ kport' = k.kp
          /\ det' = [det EXCEPT ![d] =
               CASE k.res = "Ok" -> DetDone([@ EXCEPT !.wrote = TRUE], "Ok")
                 [] k.res = "PermissionDenied" -> DetDone(@, "SysfsPermissionDenied")
                 [] OTHER -> DetDone(@, "SysfsIo")]
  /\ Quiet
  /\ UNCHANGED <<fixed, registry, att>>

\* detach_device is called once more, after the call before it returned
DetachAgain(d) ==
  /\ det[d].pc = "done"
  /\ det[d].calls < MaxCalls
  /\ det' = [det EXCEPT ![d] =
               [DetIdle EXCEPT !.calls = det[d].calls + 1,
                               !.prev = [port |-> det[d].port,
                                         result |-> det[d].result]]]
  /\ Quiet
  /\ UNCHANGED <<fixed, kport, registry, att>>

\* ================================================= list_imported_devices
\* the entry of one connected slot: the record of the slot's port, or an
\* unknown remote identity when the record cannot be read
ImportedDevice(dev, reg) ==
  LET rec == read_connection_record(reg[dev.port]) IN
  [port |-> dev.port, status |-> dev.status, known |-> rec.err = "Ok",
   remote_host |-> rec.host, remote_port |-> rec.port,
   remote_bus_id |-> rec.bus_id]

RECURSIVE ListEntries(_, _, _)
ListEntries(table, reg, k) ==
  IF k > Len(table) THEN <<>>
  ELSE IF table[k].status \in {"Used", "Error"}
    THEN <<ImportedDevice(table[k], reg)>> \o ListEntries(table, reg, k + 1)
  ELSE ListEntries(table, reg, k + 1)

list_imported_devices(kp, nc, reg, udevOk) ==
  LET o == VhciHcd_open(KernelPorts(nc), StatusAttrs(kp, nc, udevOk)) IN
  IF o.err # "Ok" THEN [ok |-> FALSE, entries |-> <<>>]
  ELSE [ok |-> TRUE, entries |-> ListEntries(o.table, reg, 1)]

ListImported ==
  /\ \E udevOk \in IoOutcomes :
       LET l == list_imported_devices(kport, numControllers, registry, udevOk)
       IN listOut' = [run |-> TRUE, ok |-> l.ok, entries |-> l.entries,
                      after |-> last]
  /\ last' = 0
  /\ UNCHANGED <<fixed, kport, registry, att, det>>

\* ================================================================= Init
MaxForeign == 1

ForeignRecord ==
  [present |-> TRUE, content |-> format_record(Host2, DEFAULT_PORT, Bus113),
   writer |-> 0]

NoCall == [op |-> "none"]

\* the kernel table before the invocations: the ports of F are held by
\* earlier invocations, in the states st, and their records are in the
\* registry
InitKernel(F, st) ==
  /\ kport = [p \in PortIds(numControllers) |->
                [status |-> IF p \in F THEN st[p] ELSE VDEV_ST_NULL,
                 owner |-> 0,
                 devid |-> IF p \in F THEN [hi |-> 1, lo |-> 3]
                           ELSE [hi |-> 0, lo |-> 0],
                 gen |-> 0]]
  /\ registry = [p \in PortIds(numControllers) |->
                   IF p \in F THEN ForeignRecord ELSE NoFile]

\* concurrent invocations on a kernel, a peer and a file system that work
Init ==
  /\ hostile = FALSE
  /\ ServerOff
  /\ numControllers \in 1 .. MaxControllers
  /\ \E F \in SUBSET PortIds(numControllers) :
       /\ Cardinality(F) <= MaxForeign
       /\ InitKernel(F, [p \in F |-> VDEV_ST_USED])
  /\ att = [a \in Attachers |-> AttIdle]
  /\ det = [d \in Detachers |-> DetIdle]
  /\ listOut = NoList
  /\ last = 0
  /\ fn = NoCall

Next ==
  \/ \E a \in Attachers : AttachQuery(a)
  \/ \E a \in Attachers : ImportOpen(a)
  \/ \E a \in Attachers : ImportTry(a)
  \/ \E a \in Attachers : AttachSave(a)
  \/ \E d \in Detachers : DetachOpen(d)
  \/ \E d \in Detachers : DetachDelete(d)
  \/ \E d \in Detachers : DetachWrite(d)
  \/ ListImported

Spec == Init /\ [][Next]_vars

\* the steps of one invocation; at most one of them is enabled at a time
AttachStep(a) ==
  AttachQuery(a) \/ ImportOpen(a) \/ ImportTry(a) \/ AttachSave(a)

DetachStep(d) == DetachOpen(d) \/ DetachDelete(d) \/ DetachWrite(d)

\* every invocation is a running process and the kernel answers every write
FairSpec ==
  /\ Spec
  /\ \A a \in Attachers : WF_vars(AttachStep(a))
  /\ \A d \in Detachers : WF_vars(DetachStep(d))

\* the attach invocations alone, each of them a running process
InitRace ==
  /\ hostile = FALSE
  /\ ServerOff
  /\ numControllers \in 1 .. MaxControllers
  /\ \E F \in SUBSET PortIds(numControllers) :
       /\ Cardinality(F) <= MaxForeign
       /\ InitKernel(F, [p \in F |-> VDEV_ST_USED])
  /\ att = [a \in Attachers |-> AttIdle]
  /\ det = [d \in Detachers |-> [DetIdle EXCEPT !.pc = "off"]]
  /\ listOut = NoList
  /\ last = 0
  /\ fn = NoCall

NextRace ==
  \/ \E a \in Attachers : AttachQuery(a)
  \/ \E a \in Attachers : ImportOpen(a)
  \/ \E a \in Attachers : ImportTry(a)
  \/ \E a \in Attachers : AttachSave(a)

RaceSpec ==
  /\ InitRace
  /\ [][NextRace]_vars
  /\ \A a \in Attachers : WF_vars(AttachStep(a))

\* ------------------------------------------- one invocation, hostile world
AttOff == [AttIdle EXCEPT !.pc = "off"]
DetOff == [DetIdle EXCEPT !.pc = "off"]

InitHostile ==
  /\ hostile = TRUE
  /\ ServerOff
  /\ numControllers \in 1 .. MaxControllers
  /\ \E F \in SUBSET PortIds(numControllers) :
       /\ Cardinality(F) <= MaxForeign
       /\ \E st \in [F -> {5, 6, 7}] : InitKernel(F, st)
  /\ listOut = NoList
  /\ last = 0
  /\ fn = NoCall

\* one attach invocation, then list-imported
InitAttach ==
  /\ InitHostile
  /\ att = [a \in Attachers |-> IF a = 1 THEN AttIdle ELSE AttOff]
  /\ det = [d \in Detachers |-> DetOff]

NextAttach ==
  \/ AttachQuery(1)
  \/ ImportOpen(1)
  \/ ImportTry(1)
  \/ AttachSave(1)
  \/ ListImported

AttachSpec == InitAttach /\ [][NextAttach]_vars

\* one detach invocation
InitDetach ==
  /\ InitHostile
  /\ att = [a \in Attachers |-> AttOff]
  /\ det = [d \in Detachers |-> IF d = NumAttach + 1 THEN DetIdle ELSE DetOff]

NextDetach ==
  \/ DetachOpen(NumAttach + 1)
  \/ DetachDelete(NumAttach + 1)
  \/ DetachWrite(NumAttach + 1)
  \/ DetachAgain(NumAttach + 1)

DetachSpec == InitDetach /\ [][NextDetach]_vars

\* ------------------------------------- list-imported on any registry
\* the file of a port: none, a record, or something that is no record
RegistryFiles ==
  {NoFile, ForeignRecord,
   [present |-> TRUE, content |-> <<103, 97, 114, 98, 97, 103, 101, 10>>,
    writer |-> 0]}

InitList ==
  /\ hostile = TRUE
  /\ ServerOff
  /\ numControllers \in 1 .. MaxControllers
  /\ \E st \in [PortIds(numControllers) -> {VDEV_ST_NULL, VDEV_ST_USED, VDEV_ST_USED + 1}] :
       kport = [p \in PortIds(numControllers) |->
                  [status |-> st[p], owner |-> 0,
                   devid |-> IF st[p] = VDEV_ST_NULL THEN [hi |-> 0, lo |-> 0]
                             ELSE [hi |-> 1, lo |-> 3],
                   gen |-> 0]]
  /\ registry \in [PortIds(numControllers) -> RegistryFiles]
  /\ att = [a \in Attachers |-> AttOff]
  /\ det = [d \in Detachers |-> DetOff]
  /\ listOut = NoList
  /\ last = 0
  /\ fn = NoCall

ListSpec == InitList /\ [][ListImported]_vars

\* ------------------------------------------------ get_free_port alone
MaxTable == 3

Tables ==
  UNION {[1 .. n -> [hub_speed : {"High", "Super"}, port : {0},
                     status : {"NotConnected", "NotAssigned", "Used", "Error"},
                     remote_device_id : {[hi |-> 0, lo |-> 0]}]] : n \in 1 .. MaxTable}

ClientOff ==
  /\ hostile = FALSE
  /\ numControllers = 1
  /\ InitKernel({}, <<>>)
  /\ att = [a \in Attachers |-> AttOff]
  /\ det = [d \in Detachers |-> DetOff]
  /\ listOut = NoList
  /\ last = 0

SystemOff == ClientOff /\ ServerOff

\* successive calls of get_free_port on one VhciHcd
MaxFreeCalls == 2

\* table is virtual_devices, table0 what it was before the first call, out
\* and prev the results of the last call and of the call before it
InitFreePort ==
  /\ SystemOff
  /\ \E t \in Tables, sp \in 0 .. 5 :
       fn = [op |-> "get_free_port", table |-> t, table0 |-> t, speed |-> sp,
             called |-> FALSE, calls |-> 0, out |-> 0, prev |-> 0]

CallFreePort ==
  /\ fn.op = "get_free_port" /\ fn.calls < MaxFreeCalls
  /\ fn' = [fn EXCEPT !.called = TRUE,
                      !.calls = @ + 1,
                      !.prev = fn.out,
                      !.out = get_free_port(fn.table, Len(fn.table), fn.speed),
                      !.table = get_free_port_table(fn.table, Len(fn.table),
                                                    fn.speed)]
  /\ UNCHANGED <<numControllers, kport, registry, att, det, listOut, last, hostile,
               usbcore, srv>>

FreePortSpec == InitFreePort /\ [][CallFreePort]_vars

\* ------------------------------- refresh_improted_device_list alone
MaxRefPorts == 3
MaxRefControllers == 2
MaxRefLines == 2

\* the data lines a status attribute may hold: three lines the scan
\* accepts, then a line the grammar refuses, an unknown hub, a status code
\* that is no VhciDeviceStatus and a connected port whose device query fails
RefLines ==
  {[parsed |-> TRUE, hub |-> "hs", port |-> 0, status |-> 4,
    device_id |-> [hi |-> 0, lo |-> 0], udev |-> TRUE],
   [parsed |-> TRUE, hub |-> "ss", port |-> 1, status |-> 6,
    device_id |-> [hi |-> 1, lo |-> 2], udev |-> TRUE],
   [parsed |-> TRUE, hub |-> "hs", port |-> 2, status |-> 5,
    device_id |-> [hi |-> 0, lo |-> 0], udev |-> TRUE],
   [parsed |-> FALSE, hub |-> "hs", port |-> 0, status |-> 4,
    device_id |-> [hi |-> 0, lo |-> 0], udev |-> TRUE],
   [parsed |-> TRUE, hub |-> "xx", port |-> 0, status |-> 4,
    device_id |-> [hi |-> 0, lo |-> 0], udev |-> TRUE],
   [parsed |-> TRUE, hub |-> "hs", port |-> 0, status |-> 9,
    device_id |-> [hi |-> 0, lo |-> 0], udev |-> TRUE],
   [parsed |-> TRUE, hub |-> "ss", port |-> 1, status |-> 6,
    device_id |-> [hi |-> 1, lo |-> 2], udev |-> FALSE]}

RefAttrs == UNION {[1 .. n -> RefLines] : n \in 0 .. MaxRefLines}

\* a table that an earlier refresh filled
OldTable(n) ==
  [k \in 1 .. n |->
     [hub_speed |-> "Super", port |-> k - 1, status |-> "NotAssigned",
      remote_device_id |-> [hi |-> 0, lo |-> 0]]]

\* table is virtual_devices before the call, after what the call left in
\* it, err the result
InitRefresh ==
  /\ SystemOff
  /\ \E n \in 1 .. MaxRefPorts, c \in 1 .. MaxRefControllers :
       \E as \in [1 .. c -> RefAttrs],
          t \in {[k \in 1 .. n |-> DefaultDevice], OldTable(n)} :
         fn = [op |-> "refresh", num_ports |-> n, attrs |-> as, table |-> t,
               called |-> FALSE, err |-> "", after |-> <<>>]

CallRefresh ==
  /\ fn.op = "refresh" /\ ~fn.called
  /\ \E r \in {refresh_improted_device_list(fn.table, fn.attrs, fn.num_ports)} :
       fn' = [fn EXCEPT !.called = TRUE, !.err = r.err, !.after = r.table]
  /\ UNCHANGED <<numControllers, kport, registry, att, det, listOut, last, hostile,
               usbcore, srv>>

RefreshSpec == InitRefresh /\ [][CallRefresh]_vars

\* ------------------------------------------- recv_reply_header alone
\* bytes that follow the header on the stream
MaxExtra == 2

OperationKinds == {0, 2, 3, 4, 5, 6, 7}

\* the eight bytes a peer may send as a header
WireVersions == {<<1, 17>>, <<17, 1>>, <<1, 16>>}
WireCodes ==
  {<<0, 0>>, <<0, 2>>, <<0, 3>>, <<0, 5>>, <<0, 1>>, <<0, 8>>, <<1, 3>>,
   <<3, 0>>, <<128, 3>>, <<128, 0>>}
WireStatuses ==
  {<<0, 0, 0, k>> : k \in 0 .. 6} \cup
  {<<0, 0, 0, 255>>, <<0, 0, 1, 0>>, <<1, 0, 0, 0>>}

\* stream is what arrives before the connection ends; consumed the bytes
\* taken from it, has and header the decoded value, if one was built
InitHeader ==
  /\ SystemOff
  /\ \E v \in WireVersions, c \in WireCodes, st \in WireStatuses,
        kind \in OperationKinds, n \in 0 .. (HEADER_LEN + MaxExtra) :
       fn = [op |-> "recv_reply_header", kind |-> kind,
             stream |-> SubSeq(v \o c \o st \o [k \in 1 .. MaxExtra |-> 7],
                               1, n),
             called |-> FALSE, out |-> "", has |-> FALSE, header |-> <<>>,
             consumed |-> 0]

CallRecvReply ==
  /\ fn.op = "recv_reply_header" /\ ~fn.called
  /\ \E r \in {recv_encoded_header(fn.stream)} :
       fn' = [fn EXCEPT !.called = TRUE,
                        !.out = IF r.err # "Ok" THEN "Io"
                                ELSE recv_reply_header(r.value, fn.kind),
                        !.has = r.has,
                        !.header = r.value,
                        !.consumed = Len(fn.stream) - Len(r.rest)]
  /\ UNCHANGED <<numControllers, kport, registry, att, det, listOut, last, hostile,
               usbcore, srv>>

HeaderSpec == InitHeader /\ [][CallRecvReply]_vars

\* ----------------------------------------------------- CharBuf<N> alone
MaxCap == 4

WireBytes == {0, 49, 255}
TextBytes == {0, 45, 49}

\* either N wire bytes are decoded and the field encoded again, or a field
\* is built from a string
InitCharBuf ==
  /\ SystemOff
  /\ \E N \in 1 .. MaxCap :
       \/ \E w \in [1 .. N -> WireBytes] :
            fn = [op |-> "decode_encode", N |-> N, wire |-> w,
                  called |-> FALSE, buffer |-> <<>>, out |-> <<>>]
       \/ \E n \in 0 .. (MaxCap + 1) : \E v \in [1 .. n -> TextBytes] :
            fn = [op |-> "new", N |-> N, value |-> v,
                  called |-> FALSE, ok |-> FALSE, buffer |-> <<>>]

CallDecodeEncode ==
  /\ fn.op = "decode_encode" /\ ~fn.called
  /\ \E b \in {CharBuf_decode(fn.wire, fn.N)} :
       fn' = [fn EXCEPT !.called = TRUE, !.buffer = b,
                        !.out = CharBuf_encode(b)]
  /\ UNCHANGED <<numControllers, kport, registry, att, det, listOut, last, hostile,
               usbcore, srv>>

CallNew ==
  /\ fn.op = "new" /\ ~fn.called
  /\ fn' = [fn EXCEPT !.called = TRUE,
                      !.ok = CharBufFits(fn.value, fn.N),
                      !.buffer = CharBuf_new(fn.value, fn.N)]
  /\ UNCHANGED <<numControllers, kport, registry, att, det, listOut, last, hostile,
               usbcore, srv>>

NextCharBuf == CallDecodeEncode \/ CallNew

CharBufSpec == InitCharBuf /\ [][NextCharBuf]_vars

\* ------------------------------------------- the state directory alone
MaxStatePort == 1

StatePorts == 0 .. MaxStatePort

HostSpaced == <<97, 32, 49, 32, 98>>                 \* "a 1 b"
Garbage == <<103, 97, 114, 98, 97, 103, 101, 10>>    \* "garbage\n"
NotUtf8 == <<255, 32, 49, 32, 49, 10>>

Umasks == {18, 63}                                   \* 0o022, 0o077
FsOutcomes == {"Ok", "PermissionDenied"}

OldFiles ==
  {NoPortFile}
    \cup {[present |-> TRUE, content |-> c, mode |-> 420] :
            c \in {format_record(Host2, DEFAULT_PORT, Bus113), Garbage,
                   NotUtf8, <<>>}}

Disks ==
  {[dir |-> d, dir_mode |-> 0, files |-> [p \in StatePorts |-> NoPortFile]] :
     d \in {"absent", "other"}}
    \cup {[dir |-> "dir", dir_mode |-> m, files |-> f] :
            m \in {STATE_MODE, 493}, f \in [StatePorts -> OldFiles]}

SavedHosts == {Host1, HostSpaced, <<>>}
SavedTcpPorts == {0, DEFAULT_PORT, 65535}
SavedBusIds == {Bus11, Bus113}

\* one call of save followed by read, of read, or of delete, on a disk
InitState ==
  /\ SystemOff
  /\ \E fs \in Disks, p \in StatePorts, io \in FsOutcomes :
       \/ \E h \in SavedHosts, t \in SavedTcpPorts, b \in SavedBusIds,
             u \in Umasks :
            fn = [op |-> "save_read", fs |-> fs, port |-> p, io |-> io,
                  host |-> h, tcp |-> t, bus_id |-> b, umask |-> u,
                  called |-> FALSE, err |-> "", after |-> fs,
                  out |-> NoRecord("", "")]
       \/ fn = [op |-> "read", fs |-> fs, port |-> p, io |-> io,
                called |-> FALSE, out |-> NoRecord("", "")]
       \/ \E rd \in BOOLEAN :
            fn = [op |-> "delete", fs |-> fs, port |-> p, io |-> io,
                  remove_dir |-> rd, called |-> FALSE, err |-> "",
                  after |-> fs]

CallSaveRead ==
  /\ fn.op = "save_read" /\ ~fn.called
  /\ \E r \in {save_state(fn.fs, fn.port, fn.host, fn.tcp, fn.bus_id,
                           fn.umask, fn.io)} :
       fn' = [fn EXCEPT !.called = TRUE, !.err = r.err, !.after = r.fs,
                        !.out = read_state(r.fs, fn.port, "Ok")]
  /\ UNCHANGED <<numControllers, kport, registry, att, det, listOut, last, hostile,
               usbcore, srv>>

CallRead ==
  /\ fn.op = "read" /\ ~fn.called
  /\ fn' = [fn EXCEPT !.called = TRUE,
                      !.out = read_state(fn.fs, fn.port, fn.io)]
  /\ UNCHANGED <<numControllers, kport, registry, att, det, listOut, last, hostile,
               usbcore, srv>>

CallDelete ==
  /\ fn.op = "delete" /\ ~fn.called
  /\ \E r \in {delete_state(fn.fs, fn.port, fn.remove_dir, fn.io)} :
       fn' = [fn EXCEPT !.called = TRUE, !.err = r.err, !.after = r.fs]
  /\ UNCHANGED <<numControllers, kport, registry, att, det, listOut, last, hostile,
               usbcore, srv>>

NextState == CallSaveRead \/ CallRead \/ CallDelete

StateSpec == InitState /\ [][NextState]_vars

\* ------------------------------- save_connection_record beside a reader
\* One process runs save_connection_record over the record of a port,
\* call by call; another runs read_connection_record on the port once,
\* at any moment.
SavedRecords ==
  {[host |-> h, port |-> t, bus_id |-> b] :
     h \in {Host1, Host2}, t \in {DEFAULT_PORT, 65535}, b \in SavedBusIds}

InitSaveRace ==
  /\ SystemOff
  /\ \E p \in StatePorts, old \in SavedRecords, new \in SavedRecords,
        u \in Umasks :
       /\ old # new
       /\ fn = [op |-> "save_race", port |-> p, old |-> old, new |-> new,
                umask |-> u, pc |-> "mkdir", read |-> FALSE,
                out |-> NoRecord("", ""),
                fs |-> [dir |-> "dir", dir_mode |-> STATE_MODE,
                        files |-> [q \in StatePorts |->
                          IF q = p
                            THEN [present |-> TRUE, mode |-> STATE_MODE,
                                  content |-> format_record(old.host, old.port,
                                                            old.bus_id)]
                            ELSE NoPortFile]]]

SaveMkdir ==
  /\ fn.op = "save_race" /\ fn.pc = "mkdir"
  /\ fn' = [fn EXCEPT !.pc = "open", !.fs = create_state_dir(fn.fs, "Ok").fs]
  /\ UNCHANGED <<numControllers, kport, registry, att, det, listOut, last, hostile,
               usbcore, srv>>

SaveOpen ==
  /\ fn.op = "save_race" /\ fn.pc = "open"
  /\ fn' = [fn EXCEPT !.pc = "write",
                      !.fs = open_port_file(fn.fs, fn.port, fn.umask)]
  /\ UNCHANGED <<numControllers, kport, registry, att, det, listOut, last, hostile,
               usbcore, srv>>

SaveWrite ==
  /\ fn.op = "save_race" /\ fn.pc = "write"
  /\ fn' = [fn EXCEPT !.pc = "done",
                      !.fs = write_port_file(fn.fs, fn.port, fn.new.host,
                                             fn.new.port, fn.new.bus_id)]
  /\ UNCHANGED <<numControllers, kport, registry, att, det, listOut, last, hostile,
               usbcore, srv>>

RaceRead ==
  /\ fn.op = "save_race" /\ ~fn.read
  /\ fn' = [fn EXCEPT !.read = TRUE, !.out = read_state(fn.fs, fn.port, "Ok")]
  /\ UNCHANGED <<numControllers, kport, registry, att, det, listOut, last, hostile,
               usbcore, srv>>

NextSaveRace == SaveMkdir \/ SaveOpen \/ SaveWrite \/ RaceRead

SaveRaceSpec == InitSaveRace /\ [][NextSaveRace]_vars

\* ------------------------------------------------ the descriptors alone
SysPath == <<47, 115, 121, 115, 47, 120>>            \* "/sys/x"

\* a field of capacity N filled with the byte c, without a NUL
Unterminated(N, c) == [k \in 1 .. N |-> c]

\* the text fields that a peer may send: a string, the empty string, a
\* string with bytes after its NUL, bytes that are no UTF-8, no NUL
WireTexts(text, N) ==
  {CharBuf_new(text, N), Zeros(N),
   text \o <<0, 255>> \o Zeros(N - Len(text) - 2),
   <<255>> \o Zeros(N - 1),
   text \o <<195>> \o Zeros(N - Len(text) - 1),
   Unterminated(N, 49)}

WireSpeeds == 0 .. (BadSpeed + 1) \cup {65536}

WireNumbers ==
  {[bus_num |-> [hi |-> 0, lo |-> 0], dev_num |-> [hi |-> 0, lo |-> 0],
    id_vendor |-> 0, id_product |-> 0, bcd_device |-> 0,
    b_device_class |-> 0, b_device_sub_class |-> 0, b_device_protocol |-> 0,
    b_configuration_value |-> 0, b_num_configurations |-> 0,
    b_num_interfaces |-> 0],
   [bus_num |-> [hi |-> 65535, lo |-> 1], dev_num |-> [hi |-> 2, lo |-> 65535],
    id_vendor |-> 7531, id_product |-> 65535, bcd_device |-> 257,
    b_device_class |-> 255, b_device_sub_class |-> 1, b_device_protocol |-> 2,
    b_configuration_value |-> 3, b_num_configurations |-> 4,
    b_num_interfaces |-> 5]}

RawUsbDeviceInfo(path, bus_id, speed, n) ==
  [path |-> path, bus_id |-> bus_id, speed |-> speed,
   bus_num |-> n.bus_num, dev_num |-> n.dev_num,
   id_vendor |-> n.id_vendor, id_product |-> n.id_product,
   bcd_device |-> n.bcd_device, b_device_class |-> n.b_device_class,
   b_device_sub_class |-> n.b_device_sub_class,
   b_device_protocol |-> n.b_device_protocol,
   b_configuration_value |-> n.b_configuration_value,
   b_num_configurations |-> n.b_num_configurations,
   b_num_interfaces |-> n.b_num_interfaces]

InterfaceBytes == {0, 1, 255}

\* a device descriptor is validated, or the four bytes of an interface
\* descriptor are decoded and the value encoded again
InitDescriptor ==
  /\ SystemOff
  /\ \/ \E path \in WireTexts(SysPath, SYSFS_PATH_MAX),
            bus_id \in WireTexts(Bus11, SYSFS_BUS_ID_SIZE),
            speed \in WireSpeeds, n \in WireNumbers :
          fn = [op |-> "try_from",
                value |-> RawUsbDeviceInfo(path, bus_id, speed, n),
                called |-> FALSE, ok |-> FALSE, info |-> <<>>]
     \/ \E b \in [1 .. 4 -> InterfaceBytes] :
          fn = [op |-> "interface", wire |-> b, called |-> FALSE,
                value |-> UsbInterfaceInfo_decode(Zeros(4)), out |-> <<>>]

CallTryFrom ==
  /\ fn.op = "try_from" /\ ~fn.called
  /\ \E r \in {UsbDeviceInfo_try_from(fn.value)} :
       fn' = [fn EXCEPT !.called = TRUE, !.ok = r.ok, !.info = r.info]
  /\ UNCHANGED <<numControllers, kport, registry, att, det, listOut, last, hostile,
               usbcore, srv>>

CallInterface ==
  /\ fn.op = "interface" /\ ~fn.called
  /\ \E v \in {UsbInterfaceInfo_decode(fn.wire)} :
       fn' = [fn EXCEPT !.called = TRUE, !.value = v,
                        !.out = UsbInterfaceInfo_encode(v)]
  /\ UNCHANGED <<numControllers, kport, registry, att, det, listOut, last, hostile,
               usbcore, srv>>

NextDescriptor == CallTryFrom \/ CallInterface

DescriptorSpec == InitDescriptor /\ [][NextDescriptor]_vars

\* ------------------------------------------------ the device id alone
\* the halves of the 32-bit bus and device numbers of an Import reply
WireHalves == {0, 1, 2, 65535}

WireU32 == [hi : WireHalves, lo : WireHalves]

InitDeviceId ==
  /\ SystemOff
  /\ \E bus_num \in WireU32, dev_num \in WireU32 :
       fn = [op |-> "device_id", bus_num |-> bus_num, dev_num |-> dev_num,
             called |-> FALSE, id |-> [hi |-> 0, lo |-> 0],
             remote_bus_num |-> 0, remote_dev_num |-> 0]

\* the id is computed as VhciHcd::attach_device computes it and read as
\* the accessors of ImportedDevice read it
CallDeviceId ==
  /\ fn.op = "device_id" /\ ~fn.called
  /\ \E id \in {vhci_device_id(fn.bus_num, fn.dev_num)} :
       fn' = [fn EXCEPT !.called = TRUE, !.id = id,
                        !.remote_bus_num = remote_bus_num(id),
                        !.remote_dev_num = remote_dev_num(id)]
  /\ UNCHANGED <<numControllers, kport, registry, att, det, listOut, last, hostile,
               usbcore, srv>>

DeviceIdSpec == InitDeviceId /\ [][CallDeviceId]_vars

\* ---------------------------------------- list_exported_devices alone
MaxDevices == 2
MaxInterfaces == 2

\* the j-th interface record of a device: class, subclass, protocol and
\* a reserved byte
SentInterface(j) == <<9, j, j + 1, 7>>

\* a device as the exporting side sends it: its descriptor, then the k
\* interface records that the descriptor declares
SentDevice(bus_id, speed, k) ==
  [raw |-> RawUsbDeviceInfo(CharBuf_new(SysPath, SYSFS_PATH_MAX),
                            CharBuf_new(bus_id, SYSFS_BUS_ID_SIZE), speed,
                            [bus_num |-> [hi |-> 0, lo |-> 1],
                             dev_num |-> [hi |-> 0, lo |-> 2],
                             id_vendor |-> 7531, id_product |-> 258,
                             bcd_device |-> 257, b_device_class |-> 255,
                             b_device_sub_class |-> 1, b_device_protocol |-> 2,
                             b_configuration_value |-> 3,
                             b_num_configurations |-> 4,
                             b_num_interfaces |-> k]),
   interfaces |-> [j \in 1 .. k |-> SentInterface(j)]]

SentDevices ==
  {SentDevice(b, sp, k) :
     b \in {Bus11, Bus113}, sp \in {2, BadSpeed}, k \in 0 .. MaxInterfaces}

RECURSIVE Concat(_)
Concat(ss) == IF ss = <<>> THEN <<>> ELSE ss[1] \o Concat(Drop(ss, 1))

SentDeviceBytes(d) == RawUsbDeviceInfo_encode(d.raw) \o Concat(d.interfaces)

\* the reply: header, count, devices; the count need not be the number
\* of devices that follow
SentReply(status, n, devs) ==
  BE16(USBIP_VERSION) \o BE16(OP_DEVLIST) \o BE32(status) \o BE32(n)
    \o Concat([i \in 1 .. Len(devs) |-> SentDeviceBytes(devs[i])])

\* how many bytes of the reply are lost when the connection ends early
Cuts == {0, 1, INTERFACE_LEN + 1, DEVICE_LEN \div 2}

InitExportList ==
  /\ SystemOff
  /\ \E m \in 0 .. MaxDevices : \E devs \in [1 .. m -> SentDevices] :
       \E n \in 0 .. (MaxDevices + 1), status \in {0, 4}, cut \in Cuts :
         \E full \in {SentReply(status, n, devs)} :
           /\ cut <= Len(full)
           /\ fn = [op |-> "list_exported_devices",
                    stream |-> SubSeq(full, 1, Len(full) - cut),
                    called |-> FALSE, err |-> "", devices |-> <<>>,
                    consumed |-> 0]

CallListExported ==
  /\ fn.op = "list_exported_devices" /\ ~fn.called
  /\ \E r \in {list_exported_devices(fn.stream)} :
       fn' = [fn EXCEPT !.called = TRUE, !.err = r.err, !.devices = r.devices,
                        !.consumed = IF r.err = "Ok"
                                       THEN Len(fn.stream) - Len(r.rest) ELSE 0]
  /\ UNCHANGED <<numControllers, kport, registry, att, det, listOut, last, hostile,
               usbcore, srv>>

ExportListSpec == InitExportList /\ [][CallListExported]_vars

\* ================================================ bind_device, unbind_device
\* calls of bind_device and unbind_device on one exporting host
MaxServerCalls == 2

USBIP_HOST == "usbip-host"

\* "add " and "del ", the two commands of the match_busid attribute
MATCH_ADD == <<97, 100, 100, 32>>
MATCH_DEL == <<100, 101, 108, 32>>

\* what a sysfs write meets before the driver core sees it
ServerOutcomes == {"Ok", "PermissionDenied", "Other"}

\* the driver core's answer to a write of the bus id to the unbind
\* attribute of a driver: the device is released if that driver holds it
KernelUnbind(core, driver, bus_id) ==
  IF core.found /\ core.bus_id = bus_id /\ core.driver = driver
    THEN [res |-> "Ok", core |-> [core EXCEPT !.driver = "none"]]
    ELSE [res |-> "ENODEV", core |-> core]

\* the driver core's answer to a write of the bus id to the bind attribute
\* of a driver: a device without a driver is probed, and usbip-host takes
\* a device whose bus id is in its match list
KernelBind(core, driver, bus_id) ==
  IF /\ core.found /\ core.bus_id = bus_id /\ core.driver = "none"
     /\ (driver = USBIP_HOST => bus_id \in core.match_busid)
    THEN [res |-> "Ok", core |-> [core EXCEPT !.driver = driver]]
    ELSE [res |-> "ENODEV", core |-> core]

\* usbip-host's answer to a write to match_busid
KernelMatchBusid(core, buf) ==
  LET cmd == SubSeq(buf, 1, 4)
      id == SubSeq(buf, 5, Len(buf))
  IN IF Len(buf) > 4 /\ cmd = MATCH_ADD
       THEN [res |-> "Ok", core |-> [core EXCEPT !.match_busid = @ \cup {id}]]
     ELSE IF Len(buf) > 4 /\ cmd = MATCH_DEL /\ id \in core.match_busid
       THEN [res |-> "Ok", core |-> [core EXCEPT !.match_busid = @ \ {id}]]
     ELSE [res |-> "EINVAL", core |-> core]

\* write_sysfs_attribute: the open, then write_all
write_sysfs_attribute(sys, answer, core) ==
  IF sys = "Ok" THEN answer ELSE [res |-> sys, core |-> core]

\* unbind_usb_driver
unbind_usb_driver(core, driver, bus_id, sys) ==
  LET k == write_sysfs_attribute(sys, KernelUnbind(core, driver, bus_id), core) IN
  [err |-> CASE k.res = "Ok" -> "Ok"
             [] k.res = "ENODEV" -> "NoDevice"
             [] k.res = "EINVAL" -> "NotBound"
             [] OTHER -> "Sysfs",
   core |-> k.core]

\* bind_usb_driver
bind_usb_driver(core, driver, bus_id, sys) ==
  LET k == write_sysfs_attribute(sys, KernelBind(core, driver, bus_id), core) IN
  [err |-> CASE k.res = "Ok" -> "Ok"
             [] k.res = "ENODEV" -> "NoDevice"
             [] k.res = "EINVAL" -> "AlreadyBoundOther"
             [] k.res = "EEXIST" -> "AlreadyBound"
             [] OTHER -> "Sysfs",
   core |-> k.core]

\* UsbipHost::update_bus_id_match_list
update_bus_id_match_list(core, bus_id, operation, sys) ==
  LET buf == (IF operation = "Add" THEN MATCH_ADD ELSE MATCH_DEL) \o bus_id
      k == write_sysfs_attribute(sys, KernelMatchBusid(core, buf), core)
  IN [err |-> CASE k.res = "Ok" -> "Ok"
                [] k.res = "PermissionDenied" -> "PermissionDenied"
                [] OTHER -> "Other",
      core |-> k.core]

\* an invocation: driver is the driver that udev reported, log the sysfs
\* writes the call issued, prev the call before it and its result
SrvIdle(op, bus_id) ==
  [pc |-> "check", op |-> op, bus_id |-> bus_id, driver |-> "none",
   log |-> <<>>, source |-> "", result |-> "", calls |-> 0,
   prev |-> [op |-> "", result |-> ""]]

SrvDone(r, res) == [r EXCEPT !.pc = "done", !.result = res]

\* the udev lookups and the checks of bind_device before its first write
bind_check(r, core, ctx) ==
  IF ~ctx THEN SrvDone(r, "CreareUdevContext")
  ELSE IF ~(core.found /\ core.bus_id = r.bus_id)
    THEN SrvDone(r, "UdevDeviceNotFound")
  ELSE IF core.vhci THEN SrvDone(r, "AlreadyBoundToVhci")
  ELSE IF core.b_device_class = "" THEN SrvDone(r, "FailedToGetUdevDeviceAttribute")
  ELSE IF core.b_device_class = "09" THEN SrvDone(r, "CannotBindHub")
  ELSE IF core.driver = USBIP_HOST THEN SrvDone(r, "AlreadyBoundToUsbipHost")
  ELSE IF core.driver # "none"
    THEN [r EXCEPT !.pc = "unbind", !.driver = core.driver]
  ELSE [r EXCEPT !.pc = "add"]

\* variant: a failed bind returns at once
bind_result_mutant(r, err) ==
  IF err = "Ok" THEN SrvDone(r, "Ok")
  ELSE SrvDone([r EXCEPT !.source = err], "BindingDriver")

\* bind_device after bind_usb_driver returned
bind_result(r, err) ==
  IF err = "Ok" THEN SrvDone(r, "Ok")
  ELSE [r EXCEPT !.pc = "remove", !.source = err]

\* the checks of unbind_device
unbind_check(r, core, ctx) ==
  IF ~ctx THEN SrvDone(r, "CreareUdevContext")
  ELSE IF ~(core.found /\ core.bus_id = r.bus_id)
    THEN SrvDone(r, "UdevDeviceNotFound")
  ELSE IF core.driver # USBIP_HOST THEN SrvDone(r, "NotAlreadyBound")
  ELSE [r EXCEPT !.pc = "unbind_host", !.driver = core.driver]

ClientQuiet ==
  UNCHANGED <<numControllers, kport, registry, att, det, listOut, last, hostile, fn>>

BindCheck ==
  /\ srv.pc = "check" /\ srv.op = "bind_device"
  /\ \E ctx \in BOOLEAN : srv' = bind_check(srv, usbcore, ctx)
  /\ UNCHANGED usbcore
  /\ ClientQuiet

\* unbind_usb_driver(&driver, local_bus_id) of bind_device
BindUnbind ==
  /\ srv.pc = "unbind"
  /\ \E sys \in ServerOutcomes :
       \E r \in {unbind_usb_driver(usbcore, srv.driver, srv.bus_id, sys)} :
         /\ usbcore' = r.core
         /\ srv' = IF r.err = "Ok"
                     THEN [srv EXCEPT !.pc = "add", !.log = Append(@, "unbind")]
                     ELSE SrvDone([srv EXCEPT !.log = Append(@, "unbind"),
                                              !.source = r.err],
                                  "UnbindingDriver")
  /\ ClientQuiet

\* update_bus_id_match_list(local_bus_id, Add) of bind_device
BindAdd ==
  /\ srv.pc = "add"
  /\ \E sys \in ServerOutcomes :
       \E r \in {update_bus_id_match_list(usbcore, srv.bus_id, "Add", sys)} :
         /\ usbcore' = r.core
         /\ srv' = IF r.err = "Ok"
                     THEN [srv EXCEPT !.pc = "bind", !.log = Append(@, "add")]
                     ELSE SrvDone([srv EXCEPT !.log = Append(@, "add"),
                                              !.source = r.err],
                                  "UpdatingMatchList")
  /\ ClientQuiet

\* bind_usb_driver("usbip-host", local_bus_id) of bind_device
BindBind ==
  /\ srv.pc = "bind"
  /\ \E sys \in ServerOutcomes :
       \E r \in {bind_usb_driver(usbcore, USBIP_HOST, srv.bus_id, sys)} :
         /\ usbcore' = r.core
         /\ srv' = bind_result([srv EXCEPT !.log = Append(@, "bind")], r.err)
  /\ ClientQuiet

\* the removal from the match list after a failed bind; its result is
\* dropped and the bind error returned
BindRemove ==
  /\ srv.pc = "remove"
  /\ \E sys \in ServerOutcomes :
       \E r \in {update_bus_id_match_list(usbcore, srv.bus_id, "Remove", sys)} :
         /\ usbcore' = r.core
         /\ srv' = SrvDone([srv EXCEPT !.log = Append(@, "del")], "BindingDriver")
  /\ ClientQuiet

UnbindCheck ==
  /\ srv.pc = "check" /\ srv.op = "unbind_device"
  /\ \E ctx \in BOOLEAN : srv' = unbind_check(srv, usbcore, ctx)
  /\ UNCHANGED usbcore
  /\ ClientQuiet

\* unbind_usb_driver("usbip-host", local_bus_id) of unbind_device
UnbindWrite ==
  /\ srv.pc = "unbind_host"
  /\ \E sys \in ServerOutcomes :
       \E r \in {unbind_usb_driver(usbcore, USBIP_HOST, srv.bus_id, sys)} :
         /\ usbcore' = r.core
         /\ srv' = IF r.err = "Ok"
                     THEN SrvDone([srv EXCEPT !.log = Append(@, "unbind")], "Ok")
                     ELSE SrvDone([srv EXCEPT !.log = Append(@, "unbind"),
                                              !.source = r.err],
                                  "UnbindingDriver")
  /\ ClientQuiet

\* the next call on the same bus id, after the call before it returned
ServerCall ==
  /\ srv.pc = "done"
  /\ srv.calls < MaxServerCalls - 1
  /\ \E op \in {"bind_device", "unbind_device"} :
       srv' = [SrvIdle(op, srv.bus_id) EXCEPT
                 !.calls = srv.calls + 1,
                 !.prev = [op |-> srv.op, result |-> srv.result]]
  /\ UNCHANGED usbcore
  /\ ClientQuiet

\* the device of the bus id as udev shows it: absent, behind vhci_hcd, a
\* hub, without a class attribute, or a leaf device with or without a
\* driver; the match list may hold bus ids of earlier exports
UsbDevices ==
  {[found |-> FALSE, bus_id |-> Bus11, vhci |-> FALSE, b_device_class |-> "",
    driver |-> "none"]}
  \cup [found : {TRUE}, bus_id : {Bus11}, vhci : BOOLEAN,
        b_device_class : {"", "09", "00"},
        driver : {"none", "usbhid", USBIP_HOST}]

InitBind ==
  /\ ClientOff
  /\ fn = [op |-> "none"]
  /\ \E dev \in UsbDevices, m \in SUBSET {Bus11, Bus113} :
       /\ (dev.driver = USBIP_HOST => Bus11 \in m)
       /\ usbcore = [found |-> dev.found, bus_id |-> dev.bus_id, vhci |-> dev.vhci,
                     b_device_class |-> dev.b_device_class,
                     driver |-> dev.driver, match_busid |-> m]
  /\ \E op \in {"bind_device", "unbind_device"} : srv = SrvIdle(op, Bus11)

NextBind ==
  \/ BindCheck
  \/ BindUnbind
  \/ BindAdd
  \/ BindBind
  \/ BindRemove
  \/ UnbindCheck
  \/ UnbindWrite
  \/ ServerCall

BindSpec == InitBind /\ [][NextBind]_vars

\* ================================================================ claims
HasEntry(entries, port, host, tcp, bus_id) ==
  \E k \in 1 .. Len(entries) :
    /\ entries[k].port = port
    /\ entries[k].known
    /\ entries[k].remote_host = host
    /\ entries[k].remote_port = tcp
    /\ entries[k].remote_bus_id = bus_id

\* C1: a list-imported that directly follows the successful return of
\* attach(host, bus_id) with port p lists an entry for port p with remote
\* host host, remote TCP port 3240 and remote bus id bus_id.
C1_ListedAfterAttach ==
  (listOut.run /\ listOut.ok /\ listOut.after # 0) =>
    HasEntry(listOut.entries, att[listOut.after].rh_port,
             att[listOut.after].host, DEFAULT_PORT, att[listOut.after].bus_id)

\* C2: when the bus id of the Import reply differs from the requested bus
\* id, or has no NUL terminator, attach fails with BusIdMismatch and the
\* invocation has written neither to the attach interface nor a record.
C2_MismatchRefused ==
  \A a \in Attachers :
    (att[a].pc = "done" /\ att[a].replied /\ att[a].differs) =>
      (att[a].result = "BusIdMismatch" /\ att[a].writes = 0 /\ ~att[a].saved)

\* the kernel ports of the hub class that the device of invocation a needs
CompatiblePorts(a) ==
  {p \in PortIds(numControllers) :
     KernelHub(p) = (IF att[a].speed = 5 THEN "ss" ELSE "hs")}

AllHeldByOthers(a) ==
  /\ att[a].pc = "loop"
  /\ \A p \in CompatiblePorts(a) : kport[p].status # VDEV_ST_NULL /\ kport[p].owner # a

\* C3: an attach whose writes are all answered resource-busy because
\* every compatible port is held by others eventually ends (NoFreePorts).
C3_RetryEnds ==
  \A a \in Attachers :
    AllHeldByOthers(a) ~> (att[a].pc = "done" \/ ~AllHeldByOthers(a))

\* C4: a detach invocation issues the detach write only after it deleted
\* the record, and once it has detached the port the record it found is
\* not there any more.
C4_DeleteBeforeDetach ==
  \A d \in Detachers :
    /\ (det[d].pc = "write" \/ det[d].wrote) => det[d].deleted
    /\ det[d].wrote =>
         ~(registry[det[d].port].present
           /\ registry[det[d].port] = det[d].removed)

C4_Witness ==
  \E d \in Detachers :
    det[d].wrote /\ det[d].removed.present /\ ~registry[det[d].port].present

\* C5: the step in which detach(port) finds the port's cached status
\* NotConnected returns success and changes no registry file and nothing
\* in the kernel, so that a repeated call finds the same.
C5_AlreadyDetached ==
  [][\A d \in Detachers :
       (/\ det[d].pc = "idle" /\ det'[d].pc # "idle"
        /\ det'[d].opened /\ det'[d].port < det'[d].total
        /\ "NotConnected" \in det'[d].cached)
       => (/\ det'[d].pc = "done" /\ det'[d].result = "Ok"
           /\ ~det'[d].deleted /\ ~det'[d].wrote
           /\ registry' = registry /\ kport' = kport)]_vars

C5_Witness ==
  \E d \in Detachers :
    /\ det[d].pc = "done" /\ det[d].result = "Ok"
    /\ "NotConnected" \in det[d].cached
    /\ det[d].calls > 0
    /\ det[d].prev = [port |-> det[d].port, result |-> "Ok"]
    /\ \E p \in DOMAIN registry : p # det[d].port /\ registry[p].present

\* C6: detach(port) with port >= the total port count fails with
\* InvalidPortNumber once the controller is open, and never deletes a
\* record or writes to the detach interface.
C6_InvalidPort ==
  \A d \in Detachers :
    (det[d].pc # "off" /\ det[d].pc # "idle"
     /\ det[d].port >= KernelPorts(numControllers)) =>
      /\ det[d].pc = "done" /\ ~det[d].deleted /\ ~det[d].wrote
      /\ det[d].opened => det[d].result = "InvalidPortNumber"

C6_Witness ==
  \E d \in Detachers :
    /\ det[d].pc = "done" /\ det[d].opened
    /\ det[d].port >= KernelPorts(numControllers)
    /\ det[d].result = "InvalidPortNumber"
    /\ \E p \in DOMAIN registry : registry[p].present

\* C7: two attach invocations that both returned success with the same
\* port were separated by a detach of that port.
C7_DistinctPorts ==
  \A a, b \in Attachers :
    (a # b /\ att[a].result = "Ok" /\ att[b].result = "Ok"
     /\ att[a].rh_port = att[b].rh_port) => att[a].genAt # att[b].genAt

C7_Witness ==
  /\ \E a, b \in Attachers :
       /\ a # b /\ att[a].result = "Ok" /\ att[b].result = "Ok"
       /\ att[a].rh_port # att[b].rh_port
  /\ \A d \in Detachers : det[d].pc = "idle"

\* the record that the occupant o of a port saved for it
RecordOf(o) ==
  IF o \in Attachers
    THEN format_record(att[o].host, DEFAULT_PORT, att[o].bus_id)
    ELSE ForeignRecord.content

AllDone ==
  /\ \A a \in Attachers : att[a].pc = "done"
  /\ \A d \in Detachers : det[d].pc = "done"

\* C8: once every invocation has run to completion, a port in Used state
\* that has a record holds the record of the invocation occupying it.
C8_NoStaleRecord ==
  AllDone =>
    \A p \in PortIds(numControllers) :
      (kport[p].status = VDEV_ST_USED /\ registry[p].present) =>
        /\ registry[p].writer = kport[p].owner
        /\ registry[p].content = RecordOf(kport[p].owner)

\* C9: an attach invocation connects once and exchanges the Import request
\* and reply once; it repeats the attach write only after resource-busy,
\* and any other failed write ends it with that error.
C9_RetryOnlyBusy ==
  \A a \in Attachers :
    /\ att[a].connects <= 1 /\ att[a].imports <= 1
    /\ att[a].writes > 0 => (att[a].connects = 1 /\ att[a].imports = 1)
    /\ ~att[a].afterOther
    /\ att[a].pc = "loop" => att[a].lastWrite \in {"", "Busy"}
    /\ att[a].lastWrite = "PermissionDenied" =>
         (att[a].pc = "done" /\ att[a].result = "SysfsPermissionDenied")
    /\ att[a].lastWrite = "Io" =>
         (att[a].pc = "done" /\ att[a].result = "SysfsIo")

C9_Witness ==
  \E a \in Attachers :
    /\ att[a].pc = "done" /\ att[a].writes > 1
    /\ att[a].result = "SysfsPermissionDenied"

\* C10: get_free_port(speed) returns the lowest index of a NotConnected
\* slot whose hub class is Super for speed Super and High for every other
\* speed, and reports NoFreePorts exactly when there is no such slot.
WantedSlots ==
  {i \in 0 .. (Len(fn.table) - 1) :
     /\ fn.table[i + 1].status = "NotConnected"
     /\ fn.table[i + 1].hub_speed = (IF fn.speed = 5 THEN "Super" ELSE "High")}

C10_LowestFreeSlot ==
  (fn.op = "get_free_port" /\ fn.called) =>
    /\ (WantedSlots = {}) <=> (fn.out = Len(fn.table))
    /\ WantedSlots # {} =>
         (fn.out \in WantedSlots /\ \A i \in WantedSlots : fn.out <= i)

C10_Witness ==
  /\ fn.op = "get_free_port" /\ fn.called
  /\ fn.speed = 5 /\ fn.out = 2
  /\ fn.table[1].hub_speed = "High" /\ fn.table[1].status = "NotConnected"
  /\ fn.table[2].hub_speed = "Super" /\ fn.table[2].status = "Used"

RECURSIVE Flat(_)
Flat(attrs) ==
  IF attrs = <<>> THEN <<>> ELSE Head(attrs) \o Flat(Tail(attrs))

\* a data line that the scan takes without an error
Accepted(line, num_ports) ==
  /\ line.parsed /\ line.hub \in {"hs", "ss"} /\ line.port < num_ports
  /\ line.status \in 4 .. 7
  /\ line.status \in {6, 7} => line.udev

\* C12: refresh succeeds only if the data lines of all controllers are as
\* many as num_ports; a line beyond num_ports ends it with
\* ConflictingStatusData, and so do fewer lines once the last controller
\* is scanned.
C12_LineCount ==
  (fn.op = "refresh" /\ fn.called) =>
    LET lines == Flat(fn.attrs) IN
    /\ fn.err = "Ok" => Len(lines) = fn.num_ports
    /\ (/\ Len(lines) > fn.num_ports
        /\ \A k \in 1 .. fn.num_ports : Accepted(lines[k], fn.num_ports))
         => fn.err = "ConflictingStatusData"
    /\ (/\ Len(lines) < fn.num_ports
        /\ \A k \in 1 .. Len(lines) : Accepted(lines[k], fn.num_ports))
         => fn.err = "ConflictingStatusData"

C12_Witness ==
  /\ fn.op = "refresh" /\ fn.called
  /\ fn.err = "ConflictingStatusData"
  /\ Len(fn.attrs) = 2 /\ Len(fn.attrs[1]) = 1 /\ Len(fn.attrs[2]) = 2
  /\ fn.num_ports = 2
  /\ \A k \in 1 .. 2 : Accepted(Flat(fn.attrs)[k], 2)

\* the slot that a data line is stored as
SlotOf(line) ==
  [hub_speed |-> IF line.hub = "hs" THEN "High" ELSE "Super",
   port |-> line.port,
   status |-> VhciDeviceStatus(line.status),
   remote_device_id |-> IF line.status \in {6, 7} THEN line.device_id
                        ELSE [hi |-> 0, lo |-> 0]]

\* C13: after a successful refresh the k-th data line in scan order is in
\* table slot k-1, whatever the number of controllers.
C13_SlotPerLine ==
  (fn.op = "refresh" /\ fn.called /\ fn.err = "Ok") =>
    \A k \in 1 .. Len(Flat(fn.attrs)) :
      fn.after[k] = SlotOf(Flat(fn.attrs)[k])

\* C14: a refresh that fails leaves the table as it was before the call.
C14_NoPartialUpdate ==
  (fn.op = "refresh" /\ fn.called /\ fn.err # "Ok") => fn.after = fn.table

\* a call of recv_reply_header that received all bytes of a header
Received == fn.op = "recv_reply_header" /\ fn.called /\ Len(fn.stream) >= 8

\* the fields of the received header, read off the wire bytes
WireVersionOk == fn.stream[1] = 1 /\ fn.stream[2] = 17
WireIsReply == fn.stream[3] < 128
WireOpcode == (fn.stream[3] % 128) * 256 + fn.stream[4]
WireOpcodeOk == WireOpcode = fn.kind \/ WireOpcode = 0
WireStatus == SubSeq(fn.stream, 5, 8)
WireWellFormed == WireVersionOk /\ WireIsReply /\ WireOpcodeOk

\* C15: recv_reply_header(kind) succeeds exactly on a header with version
\* 0x0111, the bit 0x8000 of the code clear, an opcode equal to kind or to
\* 0, and status 0.
C15_ReplyAccepted ==
  Received =>
    ((fn.out = "Ok") <=> (WireWellFormed /\ WireStatus = <<0, 0, 0, 0>>))

C15_Witness ==
  /\ Received /\ fn.out = "Ok"
  /\ fn.kind = 3 /\ WireOpcode = 0

\* C16: a wrong version, a wrong direction bit and an unknown or
\* mismatching opcode are reported with three different failures, and a
\* well-formed header with a status other than Ok gives none of the three.
C16_DistinctFailures ==
  Received =>
    /\ (fn.out = "VersionMismatch") <=> ~WireVersionOk
    /\ (fn.out = "DirectionMismatch") <=> (WireVersionOk /\ ~WireIsReply)
    /\ (fn.out = "InvalidData") <=>
         (WireVersionOk /\ WireIsReply /\ ~WireOpcodeOk)

C16_Witness ==
  /\ Received /\ fn.out = "InvalidData"
  /\ WireOpcode = 8 /\ WireStatus = <<0, 0, 0, 2>>

\* C17: for a header that passes the version, direction and opcode checks,
\* status 0 gives success, the statuses 1 to 5 give RequestFailed,
\* DeviceBusy, DeviceError, NoSuchDevice and Other, and no other status
\* gives success.
C17_StatusMap ==
  (Received /\ WireWellFormed) =>
    /\ WireStatus = <<0, 0, 0, 0>> => fn.out = "Ok"
    /\ WireStatus = <<0, 0, 0, 1>> => fn.out = "RequestFailed"
    /\ WireStatus = <<0, 0, 0, 2>> => fn.out = "DeviceBusy"
    /\ WireStatus = <<0, 0, 0, 3>> => fn.out = "DeviceError"
    /\ WireStatus = <<0, 0, 0, 4>> => fn.out = "NoSuchDevice"
    /\ WireStatus = <<0, 0, 0, 5>> => fn.out = "Other"
    /\ WireStatus # <<0, 0, 0, 0>> => fn.out # "Ok"

C17_Witness ==
  /\ Received /\ WireWellFormed
  /\ WireStatus = <<1, 0, 0, 0>> /\ fn.out = "Other"

\* C18: a header is decoded only after exactly its 8 bytes were taken from
\* the stream, and from those bytes; when the stream ends before the
\* eighth byte the receive fails with an I/O error and no value is built.
C18_WholeFrames ==
  (fn.op = "recv_reply_header" /\ fn.called) =>
    /\ fn.has =>
         /\ fn.consumed = HEADER_LEN
         /\ Len(fn.stream) >= HEADER_LEN
         /\ fn.header.version = fn.stream[1] * 256 + fn.stream[2]
         /\ fn.header.code = fn.stream[3] * 256 + fn.stream[4]
    /\ Len(fn.stream) < HEADER_LEN => (fn.out = "Io" /\ ~fn.has)

C18_Witness ==
  /\ fn.op = "recv_reply_header" /\ fn.called
  /\ Len(fn.stream) = 7 /\ fn.out = "Io" /\ ~fn.has

\* C19: N wire bytes that hold a NUL-terminated string shorter than N,
\* decoded into a field and encoded again, give the same N bytes.
C19_RoundTrip ==
  (fn.op = "decode_encode" /\ fn.called /\ \E i \in 1 .. fn.N : fn.wire[i] = 0)
    => fn.out = fn.wire

C19_Witness ==
  /\ fn.op = "decode_encode" /\ fn.called
  /\ fn.wire = <<49, 0, 255, 49>> /\ fn.out = fn.wire

\* C20: a field of capacity N built from a string of N or more bytes is
\* refused and no value is produced; from a string of fewer than N bytes
\* it is the bytes of the string followed by NULs up to N.
C20_NoTruncation ==
  (fn.op = "new" /\ fn.called) =>
    /\ Len(fn.value) >= fn.N => (~fn.ok /\ fn.buffer = <<>>)
    /\ Len(fn.value) < fn.N =>
         /\ fn.ok /\ Len(fn.buffer) = fn.N
         /\ \A k \in 1 .. fn.N :
              fn.buffer[k] = IF k <= Len(fn.value) THEN fn.value[k] ELSE 0

C20_Witness ==
  /\ fn.op = "new" /\ fn.called
  /\ Len(fn.value) = fn.N /\ fn.N = 3 /\ ~fn.ok /\ fn.buffer = <<>>

NoWhitespace(b) == \A i \in 1 .. Len(b) : ~IsSpace(b[i])

\* C21: a record whose host and bus id are non-empty and free of
\* whitespace, saved for a port and read back for the same port, comes
\* back with the same host, TCP port and bus id.
C21_SaveRead ==
  (/\ fn.op = "save_read" /\ fn.called /\ fn.err = "Ok"
   /\ fn.host # <<>> /\ NoWhitespace(fn.host)
   /\ fn.bus_id # <<>> /\ NoWhitespace(fn.bus_id))
    => /\ fn.out.err = "Ok"
       /\ fn.out.host = fn.host
       /\ fn.out.port = fn.tcp
       /\ fn.out.bus_id = fn.bus_id

C21_Witness ==
  /\ fn.op = "save_read" /\ fn.called /\ fn.err = "Ok"
  /\ fn.port = 1 /\ fn.host = Host1 /\ fn.tcp = 65535 /\ fn.bus_id = Bus113
  /\ fn.fs.dir = "dir" /\ fn.fs.files[1].content = Garbage
  /\ fn.out.err = "Ok" /\ fn.out.host = Host1 /\ fn.out.port = 65535

SameRecord(out, rec) ==
  /\ out.err = "Ok" /\ out.host = rec.host /\ out.port = rec.port
  /\ out.bus_id = rec.bus_id

\* C22: a read of a port that runs beside a save over the port's record
\* returns the record of before the save or the record that is saved,
\* whole.
C22_AtomicSave ==
  (fn.op = "save_race" /\ fn.read) =>
    (SameRecord(fn.out, fn.old) \/ SameRecord(fn.out, fn.new))

\* why a read fails: the port file is missing, its content is malformed,
\* or the system refuses a call; "" when it succeeds
ReadCause(fs, port, io) ==
  IF io # "Ok" \/ fs.dir = "other" THEN "io"
  ELSE IF fs.dir = "absent" \/ ~fs.files[port].present THEN "missing"
  ELSE IF \/ ~IsUtf8(fs.files[port].content)
          \/ ScanSplits(trim(fs.files[port].content)) = {} THEN "malformed"
  ELSE ""

\* C23: a read that fails for one of the three causes reports a failure
\* kind that no read failing for another of the causes reports.
C23_ThreeKinds ==
  (fn.op = "read" /\ fn.called /\ ReadCause(fn.fs, fn.port, fn.io) # "") =>
    /\ fn.out.err # "Ok"
    /\ \A fs \in Disks, p \in StatePorts, io \in FsOutcomes :
         ReadCause(fs, p, io) \notin {"", ReadCause(fn.fs, fn.port, fn.io)}
           => read_state(fs, p, io).err # fn.out.err

\* C24: delete succeeds on a port whose file is absent, leaves the file of
\* every other port as it was, and, asked to remove the directory,
\* succeeds as well when the directory is absent or holds other files.
C24_DeleteTolerant ==
  (fn.op = "delete" /\ fn.called /\ fn.io = "Ok" /\ fn.fs.dir # "other") =>
    /\ fn.err = "Ok"
    /\ ~fn.after.files[fn.port].present
    /\ \A q \in StatePorts \ {fn.port} : fn.after.files[q] = fn.fs.files[q]
    /\ (\E q \in StatePorts : fn.after.files[q].present) => fn.after.dir = "dir"

C24_Witness ==
  /\ fn.op = "delete" /\ fn.called /\ fn.io = "Ok" /\ fn.remove_dir
  /\ fn.port = 0 /\ fn.fs.dir = "dir"
  /\ ~fn.fs.files[0].present /\ fn.fs.files[1].present
  /\ fn.err = "Ok" /\ fn.after.files[1] = fn.fs.files[1]

\* C25: after a save, a port file that the save created carries owner
\* read and write and no other bit, and the directory carries owner read,
\* write and execute only.
C25_OwnerOnly ==
  (fn.op = "save_read" /\ fn.called /\ fn.err = "Ok") =>
    /\ fn.after.dir_mode = STATE_MODE
    /\ (fn.fs.dir # "dir" \/ ~fn.fs.files[fn.port].present)
         => BitAnd(fn.after.files[fn.port].mode, 127) = 0

\* the entry of port p in a listing tells what the record of p tells, or
\* nothing of the remote side when the record cannot be read
EntryOfOwnRecord(e, p) ==
  LET rec == read_connection_record(registry[p]) IN
  /\ e.port = p
  /\ IF rec.err # "Ok" THEN ~e.known
     ELSE /\ e.known /\ e.remote_host = rec.host
          /\ e.remote_port = rec.port /\ e.remote_bus_id = rec.bus_id

\* C26: list-imported fails only when the controller cannot be opened;
\* when it succeeds every Used or Error port has an entry, with the remote
\* side absent if the record of the port cannot be read and with the
\* content of the port's own record otherwise.
C26_ListDegrades ==
  listOut.run =>
    /\ ~listOut.ok =>
          VhciHcd_open(KernelPorts(numControllers),
                       StatusAttrs(kport, numControllers, FALSE)).err # "Ok"
    /\ listOut.ok =>
          \A p \in PortIds(numControllers) :
            kport[p].status \in {VDEV_ST_USED, VDEV_ST_USED + 1} =>
              \E k \in 1 .. Len(listOut.entries) :
                EntryOfOwnRecord(listOut.entries[k], p)

\* C27: a record that an attach invocation wrote is the record of the
\* port that its attach write took in the kernel, and an invocation that
\* returned a failure of the connection, the handshake, the validation,
\* the port selection or the attach write has written no record.
C27_RecordAfterAttach ==
  \A a \in Attachers :
    /\ \A p \in PortIds(numControllers) :
         registry[p].writer = a =>
           att[a].saved /\ att[a].lastWrite = "Ok" /\ att[a].rh_port = p
    /\ att[a].saved => att[a].lastWrite = "Ok"
    /\ (att[a].pc = "done" /\ att[a].result \notin {"Ok", "FsState"}) =>
         /\ ~att[a].saved
         /\ \A p \in PortIds(numControllers) : registry[p].writer # a

C27_Witness ==
  /\ att[1].pc = "done" /\ att[1].result = "Ok" /\ att[1].saved
  /\ registry[att[1].rh_port].writer = 1
  /\ kport[att[1].rh_port].owner = 1

\* C28: an attach invocation that returned BusIdTooLong has sent no byte
\* of the Import request, neither header nor body, has made no write to
\* the controller and has written no record.
C28_FailFast ==
  \A a \in Attachers :
    (att[a].pc = "done" /\ att[a].result = "BusIdTooLong") =>
      /\ ~att[a].hdr_sent /\ att[a].imports = 0
      /\ att[a].writes = 0 /\ ~att[a].saved
      /\ \A p \in PortIds(numControllers) : registry[p].writer # a

\* a text field holds a NUL and the bytes before its first NUL are UTF-8
TextWellFormed(buf) ==
  \E i \in 1 .. Len(buf) :
    /\ buf[i] = 0 /\ \A j \in 1 .. (i - 1) : buf[j] # 0
    /\ IsUtf8(SubSeq(buf, 1, i - 1))

NumberFields ==
  {"bus_num", "dev_num", "id_vendor", "id_product", "bcd_device",
   "b_device_class", "b_device_sub_class", "b_device_protocol",
   "b_configuration_value", "b_num_configurations", "b_num_interfaces"}

\* C29: a wire device descriptor is validated exactly when its path and
\* its bus id each hold a NUL with UTF-8 before it and its speed code is
\* one of the six speeds; the validated form has every numeric field of
\* the wire form.
C29_Validated ==
  (fn.op = "try_from" /\ fn.called) =>
    /\ fn.ok <=> /\ TextWellFormed(fn.value.path)
                 /\ TextWellFormed(fn.value.bus_id)
                 /\ fn.value.speed \in 0 .. SPEED_SUPER
    /\ fn.ok => \A f \in NumberFields : fn.info[f] = fn.value[f]

C29_Witness ==
  /\ fn.op = "try_from" /\ fn.called /\ fn.ok
  /\ fn.value.path = SysPath \o <<0, 255>> \o Zeros(SYSFS_PATH_MAX - Len(SysPath) - 2)
  /\ fn.info.path = SysPath /\ fn.info.bus_id = Bus11
  /\ fn.info.id_vendor = 7531 /\ fn.info.speed = SPEED_SUPER

\* C30: the fourth byte of an encoded interface descriptor is zero
\* whatever the fourth byte it was decoded from, and class, subclass and
\* protocol are the first three bytes, whatever the fourth.
C30_ReservedZero ==
  (fn.op = "interface" /\ fn.called) =>
    /\ fn.out[4] = 0
    /\ fn.value.b_interface_class = fn.wire[1]
    /\ fn.value.b_interface_sub_class = fn.wire[2]
    /\ fn.value.b_interface_protocol = fn.wire[3]

\* the place before the i-th device of a reply, by the interface counts
\* that the descriptors before it declare; beyond the end of the stream
\* when a descriptor before it is not whole
RECURSIVE DeviceOffset(_, _)
DeviceOffset(stream, i) ==
  IF i = 1 THEN HEADER_LEN + COUNT_LEN
  ELSE LET o == DeviceOffset(stream, i - 1) IN
    IF o + DEVICE_LEN > Len(stream) THEN Len(stream) + 1
    ELSE o + DEVICE_LEN + INTERFACE_LEN * stream[o + DEVICE_LEN]

DeviceAt(stream, i) ==
  SubSeq(stream, DeviceOffset(stream, i) + 1, DeviceOffset(stream, i) + DEVICE_LEN)

ReplyCount(stream) == U32BE(SubSeq(stream, HEADER_LEN + 1, HEADER_LEN + COUNT_LEN))

ReplyHeaderOk(stream) ==
  /\ Len(stream) >= HEADER_LEN
  /\ SubSeq(stream, 1, HEADER_LEN) = <<1, 17, 0, 5, 0, 0, 0, 0>>

DeviceValid(b) ==
  /\ TextWellFormed(SubSeq(b, 1, SYSFS_PATH_MAX))
  /\ TextWellFormed(SubSeq(b, SYSFS_PATH_MAX + 1, SYSFS_PATH_MAX + SYSFS_BUS_ID_SIZE))
  /\ b[DEVICE_LEN - 15] = 0 /\ b[DEVICE_LEN - 14] = 0 /\ b[DEVICE_LEN - 13] = 0
  /\ b[DEVICE_LEN - 12] <= SPEED_SUPER

\* the reply holds its count, and as many whole devices with their
\* interface records as the count tells, each of them valid
ReplyWhole(stream) ==
  /\ Len(stream) >= HEADER_LEN + COUNT_LEN
  /\ DeviceOffset(stream, ReplyCount(stream) + 1) <= Len(stream)
  /\ \A i \in 1 .. ReplyCount(stream) : DeviceValid(DeviceAt(stream, i))

\* C31: after an Ok reply header the call succeeds exactly on a whole
\* reply; it then returns as many devices as the count tells, in the
\* order of the wire, each with the interface records that follow its
\* descriptor, as many as the descriptor declares, and has read up to the
\* end of the last of them (with the count 0, up to the count); when it
\* fails it returns no device.
C31_ExportedList ==
  (fn.op = "list_exported_devices" /\ fn.called) =>
    /\ fn.err # "Ok" => fn.devices = <<>>
    /\ ReplyHeaderOk(fn.stream) =>
         /\ fn.err = "Ok" <=> ReplyWhole(fn.stream)
         /\ fn.err = "Ok" =>
              /\ Len(fn.devices) = ReplyCount(fn.stream)
              /\ fn.consumed = DeviceOffset(fn.stream, ReplyCount(fn.stream) + 1)
              /\ \A i \in 1 .. Len(fn.devices) :
                   LET b == DeviceAt(fn.stream, i)
                       o == DeviceOffset(fn.stream, i) + DEVICE_LEN
                       d == fn.devices[i]
                   IN /\ d.remote_device_info.bus_id
                           = as_c_str(SubSeq(b, SYSFS_PATH_MAX + 1,
                                             SYSFS_PATH_MAX + SYSFS_BUS_ID_SIZE))
                      /\ d.remote_device_info.b_num_interfaces = b[DEVICE_LEN]
                      /\ Len(d.interfaces) = b[DEVICE_LEN]
                      /\ \A j \in 1 .. Len(d.interfaces) :
                           /\ d.interfaces[j].b_interface_class
                                = fn.stream[o + INTERFACE_LEN * (j - 1) + 1]
                           /\ d.interfaces[j].b_interface_sub_class
                                = fn.stream[o + INTERFACE_LEN * (j - 1) + 2]
                           /\ d.interfaces[j].b_interface_protocol
                                = fn.stream[o + INTERFACE_LEN * (j - 1) + 3]

C31_Witness ==
  /\ fn.op = "list_exported_devices" /\ fn.called /\ fn.err = "Ok"
  /\ Len(fn.devices) = 2
  /\ Len(fn.devices[1].interfaces) = 2 /\ Len(fn.devices[2].interfaces) = 1
  /\ fn.devices[1].remote_device_info.bus_id = Bus113
  /\ fn.devices[2].remote_device_info.bus_id = Bus11
  /\ fn.consumed = Len(fn.stream)

\* C32: when a write of an invocation is answered resource-busy on port
\* p and the invocation writes again while p is still occupied, the write
\* is not on p.
C32_Reselect ==
  [][\A a \in Attachers :
       (/\ att[a].pc = "loop" /\ att[a].busyPort >= 0
        /\ kport[att[a].busyPort].status # VDEV_ST_NULL
        /\ att'[a].pc = "loop" /\ att'[a].turn # att[a].turn)
         => att'[a].busyPort # att[a].busyPort]_vars

\* the port of a write that invocation a made in the step, -1 if the
\* step is no write of a that was answered Ok or resource-busy
WrittenPort(a) ==
  IF att[a].pc = "loop" /\ att'[a].pc = "save" THEN att'[a].rh_port
  ELSE IF att[a].pc = "loop" /\ att'[a].pc = "loop"
          /\ att'[a].turn # att[a].turn THEN att'[a].busyPort
  ELSE -1

\* C33: the port that an invocation writes to attach is the port number
\* of a slot of its table that is NotConnected and of the hub class the
\* device speed needs.
C33_WrittenPortOfSlot ==
  [][\A a \in Attachers :
       WrittenPort(a) >= 0 =>
         \E k \in 1 .. Len(att[a].table) :
           /\ att[a].table[k].port = WrittenPort(a)
           /\ att[a].table[k].status = "NotConnected"
           /\ att[a].table[k].hub_speed = HubOf(att[a].speed)]_vars


\* C34: an attach invocation that returned an error holds no port of the
\* kernel: no port is connected by a write of that invocation, also when
\* the write succeeded and the save of the connection record failed
C34_ErrorLeavesNoPort ==
  \A a \in Attachers :
    (att[a].pc = "done" /\ att[a].result # "Ok") =>
      \A p \in PortIds(numControllers) : kport[p].owner # a

\* C35: a detach invocation that returned an error left the registry file
\* of its port as the call found it, also when the kernel write failed
\* after the deletion step
C35_ErrorKeepsRecord ==
  \A d \in Detachers :
    (det[d].pc = "done" /\ det[d].result \notin {"", "Ok"} /\ det[d].deleted) =>
      registry[det[d].port] = det[d].removed


\* C36: the device id computed from the 32-bit bus and device numbers of
\* an Import reply decodes through remote_bus_num and remote_dev_num to
\* the same two numbers
C36_DeviceIdRoundTrip ==
  (fn.op = "device_id" /\ fn.called) =>
    /\ fn.bus_num = [hi |-> 0, lo |-> fn.remote_bus_num]
    /\ fn.dev_num = [hi |-> 0, lo |-> fn.remote_dev_num]


\* the writes that bind_device issues up to and including the bind
BindWrites(driver) ==
  (IF driver = "none" THEN <<>> ELSE <<"unbind">>) \o <<"add", "bind">>

\* C37: bind_device writes in the order unbind (when the device has a
\* driver other than usbip-host), add to the match list, bind; a failed
\* bind is followed by the removal from the match list and the bind
\* error; a failed unbind or add is the last write of the call
C37_BindOrder ==
  (srv.pc = "done" /\ srv.op = "bind_device") =>
    CASE srv.result = "Ok" -> srv.log = BindWrites(srv.driver)
      [] srv.result = "BindingDriver" ->
           srv.log = BindWrites(srv.driver) \o <<"del">>
      [] srv.result = "UpdatingMatchList" ->
           srv.log = SubSeq(BindWrites(srv.driver), 1, Len(BindWrites(srv.driver)) - 1)
      [] srv.result = "UnbindingDriver" ->
           srv.driver # "none" /\ srv.log = <<"unbind">>
      [] OTHER -> srv.log = <<>>

C37_Witness ==
  /\ srv.pc = "done" /\ srv.op = "bind_device"
  /\ srv.result = "BindingDriver"
  /\ srv.log = <<"unbind", "add", "bind", "del">>

\* C38: when bind_device returns an error of the match-list add or of
\* the bind after it unbound the device's driver, the device is bound to
\* that driver again
C38_Rebound ==
  (/\ srv.pc = "done" /\ srv.op = "bind_device"
   /\ srv.result \in {"UpdatingMatchList", "BindingDriver"}
   /\ srv.driver # "none") =>
    usbcore.driver = srv.driver

\* C39: after a bind_device that succeeded and an unbind_device of the
\* same bus id that succeeded, the bus id is not in the match list
C39_MatchListCleared ==
  (/\ srv.pc = "done" /\ srv.op = "unbind_device" /\ srv.result = "Ok"
   /\ srv.prev.op = "bind_device" /\ srv.prev.result = "Ok") =>
    srv.bus_id \notin usbcore.match_busid

====
